---------------------------- MODULE Spec2Model ----------------------------
(***************************************************************************)
(* Model of the deepseek-poker engine: the hand evaluator and the betting  *)
(* state machine of src/app/poker.py (class PokerHand) over the seats of   *)
(* src/app/models.py (class Player), and the room around a hand, with its  *)
(* requests and its auto-play loop, of src/app/rooms.py (classes Room and  *)
(* RoomManager).  Spec drives a hand directly; RoomSpec drives a room.     *)
(*                                                                         *)
(* Conventions.  Seats are numbered from 0 as in the code; the seat list   *)
(* is a function over 0..n-1.  A seat's id is its seat index.  Python's    *)
(* None is NONE (-1) for an index and 0 for detect_straight's result.  A   *)
(* card is a number 0..51 in fresh_deck order (rank major, suit minor).    *)
(* HandStrength.best_cards is not modelled: nothing reads it.              *)
(***************************************************************************)
EXTENDS Integers, Sequences, FiniteSets, TLC

VARIABLES players, game, last_call, before, room, tasks

vars == <<players, game, last_call, before, room, tasks>>

NONE == -1

-----------------------------------------------------------------------------
(* Generic helpers *)

(* f as an explicit function: TLC then evaluates f once, not at each use *)
Force(f) == f @@ <<>>

Min2(a, b) == IF a < b THEN a ELSE b

Max2(a, b) == IF a > b THEN a ELSE b

SetMax(S) == CHOOSE x \in S : \A y \in S : y <= x

SetMin(S) == CHOOSE x \in S : \A y \in S : x <= y

Last(s) == s[Len(s)]

Front(s) == SubSeq(s, 1, Len(s) - 1)

Reverse(s) == Force([k \in 1..Len(s) |-> s[Len(s) + 1 - k]])

SeqToSet(s) == {s[k] : k \in 1..Len(s)}

RemoveAt(s, k) == SubSeq(s, 1, k - 1) \o SubSeq(s, k + 1, Len(s))

(* the numbers of the set S as a sequence in increasing order *)
RECURSIVE Ascending(_)
Ascending(S) ==
    IF S = {} THEN <<>> ELSE <<SetMin(S)>> \o Ascending(S \ {SetMin(S)})

RECURSIVE SumOver(_, _)
SumOver(f, S) ==
    IF S = {} THEN 0
    ELSE LET x == CHOOSE y \in S : TRUE IN f[x] + SumOver(f, S \ {x})

(* sorted(values, reverse=True) *)
RECURSIVE SortedDesc(_)
SortedDesc(s) ==
    IF s = <<>> THEN <<>>
    ELSE LET m == SetMax(SeqToSet(s))
             k == SetMin({j \in 1..Len(s) : s[j] = m})
         IN <<m>> \o SortedDesc(RemoveAt(s, k))

-----------------------------------------------------------------------------
(* Cards and the hand evaluator *)

RANKS == <<"2", "3", "4", "5", "6", "7", "8", "9", "T", "J", "Q", "K", "A">>

SUITS == <<"S", "H", "D", "C">>

HAND_NAMES ==
    <<"High Card", "Pair", "Two Pair", "Three of a Kind", "Straight",
      "Flush", "Full House", "Four of a Kind", "Straight Flush">>

(* Card(rank, suit) for rank index r in 1..13 and suit index s in 1..4 *)
Card(r, s) == (r - 1) * 4 + (s - 1)

(* RANK_VALUES[card.rank] *)
RankValue(c) == (c \div 4) + 2

SuitOf(c) == SUITS[(c % 4) + 1]

(* str(card) is rank then suit; modelled as the pair *)
CardLabel(c) == <<RANKS[(c \div 4) + 1], SuitOf(c)>>

fresh_deck ==
    Force([k \in 1..52 |-> Card(((k - 1) \div 4) + 1, ((k - 1) % 4) + 1)])

(* seeded fault: the wheel is not looked for *)
DetectStraightMutant(values) ==
    LET unique == SeqToSet(values)
        starts == {v \in unique : \A d \in 1..4 : (v + d) \in unique}
    IN IF starts # {} THEN SetMin(starts) + 4
       ELSE 0

detect_straight(values) ==
    LET unique == SeqToSet(values)
        starts == {v \in unique : \A d \in 1..4 : (v + d) \in unique}
    IN IF {14, 5, 4, 3, 2} \subseteq unique THEN 5
       ELSE IF starts # {} THEN SetMin(starts) + 4
       ELSE 0

HandStrength(rank_value, kickers) ==
    [rank_value |-> rank_value,
     name |-> HAND_NAMES[rank_value + 1],
     kickers |-> kickers]

(* those of the values (in order) that are not in the set ex *)
RECURSIVE Without(_, _)
Without(values, ex) ==
    IF values = <<>> THEN <<>>
    ELSE IF values[1] \in ex THEN Without(Tail(values), ex)
    ELSE <<values[1]>> \o Without(Tail(values), ex)

(* counts: how often each value occurs *)
CountsOf(values) ==
    Force([v \in SeqToSet(values) |->
             Cardinality({k \in 1..Len(values) : values[k] = v})])

(* sorted(counts.items(), key=(count, value), reverse=True), as the values *)
RECURSIVE OrderedByCount(_, _)
OrderedByCount(counts, S) ==
    IF S = {} THEN <<>>
    ELSE LET top == CHOOSE v \in S : \A w \in S :
                        \/ counts[v] > counts[w]
                        \/ counts[v] = counts[w] /\ v >= w
         IN <<top>> \o OrderedByCount(counts, S \ {top})

(* evaluate_five_card_hand from "if is_flush and straight_high" on *)
Classify(values, is_flush, straight_high, counts, ordered) ==
    IF is_flush /\ straight_high # 0
      THEN HandStrength(8, <<straight_high>>)
    ELSE IF counts[ordered[1]] = 4
      THEN HandStrength(7, <<ordered[1],
                             SetMax(SeqToSet(Without(values, {ordered[1]})))>>)
    ELSE IF counts[ordered[1]] = 3 /\ Len(ordered) > 1 /\ counts[ordered[2]] >= 2
      THEN HandStrength(6, <<ordered[1], ordered[2]>>)
    ELSE IF is_flush
      THEN HandStrength(5, values)
    ELSE IF straight_high # 0
      THEN HandStrength(4, <<straight_high>>)
    ELSE IF counts[ordered[1]] = 3
      THEN HandStrength(3, <<ordered[1]>>
                            \o SubSeq(Without(values, {ordered[1]}), 1, 2))
    ELSE IF counts[ordered[1]] = 2 /\ Len(ordered) > 1 /\ counts[ordered[2]] = 2
      THEN HandStrength(2, <<Max2(ordered[1], ordered[2]),
                             Min2(ordered[1], ordered[2]),
                             SetMax(SeqToSet(Without(values,
                                                     {ordered[1], ordered[2]})))>>)
    ELSE IF counts[ordered[1]] = 2
      THEN HandStrength(1, <<ordered[1]>>
                            \o SubSeq(Without(values, {ordered[1]}), 1, 3))
    ELSE HandStrength(0, values)

ClassifyCounted(values, is_flush, counts) ==
    Classify(values, is_flush, detect_straight(values), counts,
             OrderedByCount(counts, SeqToSet(values)))

ClassifyValues(values, is_flush) ==
    ClassifyCounted(values, is_flush, CountsOf(values))

evaluate_five_card_hand(cards) ==
    ClassifyValues(
        SortedDesc(Force([k \in 1..Len(cards) |-> RankValue(cards[k])])),
        Cardinality({SuitOf(cards[k]) : k \in 1..Len(cards)}) = 1)

(* zip_longest(..., fillvalue=0) *)
KickerAt(ks, k) == IF k <= Len(ks) THEN ks[k] ELSE 0

(* the first position at which the kicker lists differ, or 0 *)
FirstDiff(a, b) ==
    LET diff == {k \in 1..Max2(Len(a), Len(b)) : KickerAt(a, k) # KickerAt(b, k)}
    IN IF diff = {} THEN 0 ELSE SetMin(diff)

KickerDiff(a, b, k) == IF k = 0 THEN 0 ELSE KickerAt(a, k) - KickerAt(b, k)

compare_strength(left, right) ==
    IF left.rank_value # right.rank_value
      THEN left.rank_value - right.rank_value
    ELSE KickerDiff(left.kickers, right.kickers,
                    FirstDiff(left.kickers, right.kickers))

(* itertools.combinations(lo..n, k) as index tuples, in its order *)
RECURSIVE Combinations(_, _, _)
Combinations(lo, n, k) ==
    IF k = 0 THEN << <<>> >>
    ELSE IF n - lo + 1 < k THEN <<>>
    ELSE LET with == Combinations(lo + 1, n, k - 1)
         IN Force([j \in 1..Len(with) |-> <<lo>> \o with[j]])
              \o Combinations(lo + 1, n, k)

(* the cards of the index tuple combo *)
Pick(cards, combo) == Force([j \in 1..Len(combo) |-> cards[combo[j]]])

Better(strength, best) ==
    IF compare_strength(strength, best) > 0 THEN strength ELSE best

(* the loop of evaluate_best_hand from combination k on *)
RECURSIVE BestOf(_, _, _, _)
BestOf(cards, combos, k, best) ==
    IF k > Len(combos) THEN best
    ELSE BestOf(cards, combos, k + 1,
                Better(evaluate_five_card_hand(Pick(cards, combos[k])), best))

(* The value standing for "raise ValueError('unable to evaluate hand')":    *)
(* fewer than 5 cards.  A hand always evaluates 2 hole cards and 5 board    *)
(* cards (the 52-card deck cannot run out with at most 9 seats).            *)
NoStrength == [rank_value |-> -1, name |-> "unable to evaluate hand", kickers |-> <<>>]

BestOfAll(cards, combos) ==
    IF combos = <<>> THEN NoStrength
    ELSE BestOf(cards, combos, 2, evaluate_five_card_hand(Pick(cards, combos[1])))

evaluate_best_hand(hole_cards, board) ==
    BestOfAll(hole_cards \o board, Combinations(1, Len(hole_cards) + Len(board), 5))

-----------------------------------------------------------------------------
(* Seats (models.py) *)

(* Player(id, stack) with the dataclass defaults *)
Player(id, stack) ==
    [id |-> id, stack |-> stack, bet |-> 0, folded |-> FALSE,
     all_in |-> FALSE, busted |-> FALSE, hole_cards |-> <<>>,
     has_acted |-> FALSE, seat_index |-> 0]

reset_for_new_hand(p) ==
    [p EXCEPT !.busted = IF p.stack <= 0 THEN TRUE ELSE @,
              !.bet = 0,
              !.folded = FALSE,
              !.all_in = FALSE,
              !.hole_cards = <<>>,
              !.has_acted = FALSE]

ActionRecord(player_id, action, amount, phase) ==
    [player_id |-> player_id, action |-> action, amount |-> amount, phase |-> phase]

-----------------------------------------------------------------------------
(* PokerHand (poker.py).  A hand h is the record of the object's fields,    *)
(* h.players being the seat list it shares with its owner.  A method that   *)
(* works in steps is a chain of operators, each taking the hand the step    *)
(* before it left.                                                          *)

(* last_event: None, or the message with the names and the chips in it *)
NoEvent == [text |-> "None", names |-> <<>>, chips |-> 0]

(* PokerHand.__init__ *)
PokerHandInit(ps, dealer_index, small_blind, big_blind) ==
    [players |-> ps,
     dealer_index |-> dealer_index,
     small_blind |-> small_blind,
     big_blind |-> big_blind,
     deck |-> <<>>,
     community_cards |-> <<>>,
     pot |-> 0,
     phase |-> "waiting",
     current_bet |-> 0,
     min_raise |-> big_blind,
     current_player_index |-> NONE,
     actions |-> <<>>,
     hand_over |-> FALSE,
     winners |-> <<>>,
     last_event |-> NoEvent,
     small_blind_index |-> NONE,
     big_blind_index |-> NONE]

NumPlayers(h) == Cardinality(DOMAIN h.players)

(* seeded fault: the walk begins at start itself, not at the seat after it *)
IterFromMutant(h, start) ==
    Force([k \in 1..NumPlayers(h) |-> (start + k - 1) % NumPlayers(h)])

(* the indices _iter_from(start) yields, in order *)
_iter_from(h, start) ==
    Force([k \in 1..NumPlayers(h) |-> (start + k) % NumPlayers(h)])

(* the first index of the sequence order that is in the set ok, or NONE *)
FirstIn(order, ok) ==
    LET hits == {k \in 1..Len(order) : order[k] \in ok}
    IN IF hits = {} THEN NONE ELSE order[SetMin(hits)]

(* seeded fault: a seat that is all-in is not skipped *)
CanActMutant(p) == ~(p.folded \/ p.busted \/ (p.stack <= 0 /\ ~p.all_in))

(* the seats _next_active_index does not skip *)
CanAct(p) ==
    /\ ~(p.folded \/ p.busted \/ (p.stack <= 0 /\ ~p.all_in))
    /\ ~p.all_in

_next_active_index(h, start_index) ==
    IF start_index = NONE THEN NONE
    ELSE FirstIn(_iter_from(h, start_index),
                 {idx \in DOMAIN h.players : CanAct(h.players[idx])})

(* seeded fault: the seat that commits its last chip is not marked all-in *)
AllInUnsetMutant(h, idx, amount) ==
    [h EXCEPT !.players[idx].stack = @ - amount,
              !.players[idx].bet = @ + amount,
              !.pot = @ + amount]

(* _commit with the amount already clamped *)
CommitClamped(h, idx, amount) ==
    [h EXCEPT !.players[idx].stack = @ - amount,
              !.players[idx].bet = @ + amount,
              !.pot = @ + amount,
              !.players[idx].all_in =
                  IF h.players[idx].stack - amount = 0 /\ amount > 0 THEN TRUE ELSE @]

(* seeded fault: the pot takes the amount asked for, not the clamped one *)
CommitMutant(h, idx, amount) ==
    [CommitClamped(h, idx, Max2(0, Min2(amount, h.players[idx].stack)))
       EXCEPT !.pot = h.pot + amount]

_commit(h, idx, amount) ==
    CommitClamped(h, idx, Max2(0, Min2(amount, h.players[idx].stack)))

(* _post_blind once chips = min(player.stack, amount) is known *)
PostChips(h, player_index, chips, label) ==
    [_commit(h, player_index, chips) EXCEPT !.actions =
        Append(@, ActionRecord(h.players[player_index].id, label, chips, h.phase))]

_post_blind(h, player_index, amount, label) ==
    PostChips(h, player_index, Min2(h.players[player_index].stack, amount), label)

(* the loops of _deal_private_cards over the seats of order from k on *)
RECURSIVE DealTo(_, _, _)
DealTo(h, order, k) ==
    IF k > Len(order) THEN h
    ELSE IF h.players[order[k]].stack <= 0 \/ h.players[order[k]].busted
      THEN DealTo(h, order, k + 1)
    ELSE DealTo([h EXCEPT !.players[order[k]].hole_cards = Append(@, Last(h.deck)),
                          !.deck = Front(@)],
                order, k + 1)

_deal_private_cards(h) ==
    DealTo(h, _iter_from(h, h.dealer_index) \o _iter_from(h, h.dealer_index), 1)

(* the seats that are neither folded nor busted *)
InHand(h) ==
    {i \in DOMAIN h.players : ~h.players[i].folded /\ ~h.players[i].busted}

_active_player_count(h) == Cardinality(InHand(h))

_finish_hand(h, winners, message) ==
    [h EXCEPT !.winners = Force([k \in 1..Len(winners) |->
                             [player_id |-> h.players[winners[k]].id,
                              hand |-> message, cards |-> <<>>]]),
              !.last_event = [text |-> message, names |-> <<>>, chips |-> 0],
              !.pot = 0,
              !.current_player_index = NONE,
              !.hand_over = TRUE,
              !.phase = "showdown"]

(* the place of seat i in the list winners, from 0; NONE when it is not in it *)
PlaceIn(winners, i) ==
    LET at == {k \in 1..Len(winners) : winners[k] = i}
    IN IF at = {} THEN NONE ELSE SetMin(at) - 1

(* seeded fault: the odd chips go to the last winners, not to the first *)
AwardMutant(pot, n, idx) ==
    (pot \div n) + (IF idx >= n - (pot % n) THEN 1 ELSE 0)

(* what the loop of _award_pot adds to the stack of the winner at place idx *)
Award(pot, n, idx) ==
    (pot \div n) + (IF idx < pot % n THEN 1 ELSE 0)

(* [str(card) for card in hole_cards] *)
Labels(hole_cards) ==
    Force([c \in 1..Len(hole_cards) |-> CardLabel(hole_cards[c])])

(* winners: seat indices, each once, in the list's order; hand_name is      *)
(* strength.name, or "No contest" when strength is None                     *)
_award_pot(h, winners, hand_name) ==
    IF winners = <<>>
      THEN [h EXCEPT !.hand_over = TRUE, !.pot = 0,
                     !.current_player_index = NONE, !.phase = "showdown"]
    ELSE [h EXCEPT
            !.players = Force([i \in DOMAIN h.players |->
                IF PlaceIn(winners, i) = NONE THEN h.players[i]
                ELSE [h.players[i] EXCEPT !.stack =
                         @ + Award(h.pot, Len(winners), PlaceIn(winners, i))]]),
            !.last_event = [text |-> "won", chips |-> h.pot,
                            names |-> Force([k \in 1..Len(winners) |->
                                               h.players[winners[k]].id])],
            !.winners = Force([k \in 1..Len(winners) |->
                           [player_id |-> h.players[winners[k]].id,
                            hand |-> hand_name,
                            cards |-> Labels(h.players[winners[k]].hole_cards)]]),
            !.pot = 0,
            !.hand_over = TRUE,
            !.current_player_index = NONE,
            !.phase = "showdown"]

(* _finish_single_player once remaining is known *)
FinishRemaining(h, remaining) ==
    IF remaining = <<>> THEN _finish_hand(h, <<>>, "hand aborted")
    ELSE _award_pot(h, <<remaining[1]>>, "No contest")

_finish_single_player(h) == FinishRemaining(h, Ascending(InHand(h)))

RECURSIVE _deal_remaining_board(_)
_deal_remaining_board(h) ==
    IF Len(h.community_cards) < 5 /\ h.deck # <<>>
      THEN _deal_remaining_board(
             [h EXCEPT !.community_cards = Append(@, Last(h.deck)),
                       !.deck = Front(@)])
      ELSE h

(* Python's order on lists, for the sort key (rank_value, kickers) *)
FirstDiffCommon(a, b) ==
    LET diff == {k \in 1..Min2(Len(a), Len(b)) : a[k] # b[k]}
    IN IF diff = {} THEN 0 ELSE SetMin(diff)

ListLessAt(a, b, k) == IF k = 0 THEN Len(a) < Len(b) ELSE a[k] < b[k]

KeyLess(s, t) ==
    \/ s.rank_value < t.rank_value
    \/ /\ s.rank_value = t.rank_value
       /\ ListLessAt(s.kickers, t.kickers, FirstDiffCommon(s.kickers, t.kickers))

(* the first entry of scored that no entry is greater than *)
FirstTop(scored) ==
    SetMin({k \in 1..Len(scored) :
              \A j \in 1..Len(scored) :
                 ~KeyLess(scored[k].strength, scored[j].strength)})

(* seeded fault: the list is left unsorted *)
SortScoredMutant(scored) == scored

(* scored.sort(key=..., reverse=True): descending, equal keys in their order *)
RECURSIVE SortScored(_)
SortScored(scored) ==
    IF scored = <<>> THEN <<>>
    ELSE <<scored[FirstTop(scored)]>>
           \o SortScored(RemoveAt(scored, FirstTop(scored)))

(* [p for strength, p in scored if compare_strength(strength, best_rank) == 0] *)
RECURSIVE WinnersFrom(_, _)
WinnersFrom(scored, k) ==
    IF k > Len(scored) THEN <<>>
    ELSE (IF compare_strength(scored[k].strength, scored[1].strength) = 0
            THEN <<scored[k].p>> ELSE <<>>)
           \o WinnersFrom(scored, k + 1)

(* _resolve_showdown from "best_rank = scored[0][0]" on *)
AwardScored(h, scored) ==
    _award_pot(h, WinnersFrom(scored, 1), scored[1].strength.name)

(* [(evaluate_best_hand(p.hole_cards, community_cards), p) for p in contenders] *)
Scored(h, contenders) ==
    Force([k \in 1..Len(contenders) |->
             [strength |-> evaluate_best_hand(h.players[contenders[k]].hole_cards,
                                              h.community_cards),
              p |-> contenders[k]]])

(* _resolve_showdown once the board is dealt and the contenders are known *)
ResolveContenders(h, contenders) ==
    IF contenders = <<>> THEN _finish_hand(h, <<>>, "no players left")
    ELSE AwardScored(h, SortScored(Scored(h, contenders)))

ResolveDealt(h) == ResolveContenders(h, Ascending(InHand(h)))

_resolve_showdown(h) == ResolveDealt(_deal_remaining_board(h))

(* seeded fault: with no seat left to act the hand is left as it is *)
ShowdownMutant(h) == h

(* "if self.current_player_index is None: self._resolve_showdown()" *)
ShowdownIfNoPlayer(h) ==
    IF h.current_player_index = NONE THEN _resolve_showdown(h) ELSE h

-----------------------------------------------------------------------------
(* PokerHand.start.  A method that can raise returns [err, h]: err is the   *)
(* message of the ValueError ("" when it returns normally) and h the hand   *)
(* as the method left it.                                                   *)

(* start from "self.deck = fresh_deck()" up to "self.last_event = None";    *)
(* shuffled is what random.shuffle left of the deck                         *)
StartReset(h, shuffled) ==
    [h EXCEPT !.deck = shuffled,
              !.players = Force([i \in DOMAIN h.players |->
                  [reset_for_new_hand(h.players[i]) EXCEPT !.seat_index = i]]),
              !.community_cards = <<>>,
              !.pot = 0,
              !.phase = "preflop",
              !.current_bet = 0,
              !.min_raise = h.big_blind,
              !.actions = <<>>,
              !.winners = <<>>,
              !.hand_over = FALSE,
              !.last_event = NoEvent]

(* start from "self.current_bet = max(...)" on; h has the blinds posted *)
StartTurn(h, bb_index) ==
    ShowdownIfNoPlayer(
        [h EXCEPT !.current_bet = SetMax({h.players[i].bet : i \in DOMAIN h.players}),
                  !.min_raise = h.big_blind,
                  !.current_player_index = _next_active_index(h, bb_index)])

(* start from "self.small_blind_index = sb_index" on *)
StartPosted(h, sb_index, bb_index) ==
    StartTurn(
        _post_blind(
            _post_blind([h EXCEPT !.small_blind_index = sb_index,
                                  !.big_blind_index = bb_index],
                        sb_index, h.small_blind, "small_blind"),
            bb_index, h.big_blind, "big_blind"),
        bb_index)

StartBlinds(h, sb_index, bb_index) ==
    IF sb_index = NONE \/ bb_index = NONE
      THEN [err |-> "unable to post blinds", h |-> h]
      ELSE [err |-> "", h |-> StartPosted(h, sb_index, bb_index)]

StartSmallBlind(h, sb_index) ==
    StartBlinds(h, sb_index, _next_active_index(h, sb_index))

StartDealt(h) == StartSmallBlind(h, _next_active_index(h, h.dealer_index))

start(h, shuffled) ==
    IF Cardinality({i \in DOMAIN h.players :
                      h.players[i].stack > 0 /\ ~h.players[i].busted}) < 2
      THEN [err |-> "not enough players with chips", h |-> h]
      ELSE StartDealt(_deal_private_cards(StartReset(h, shuffled)))

-----------------------------------------------------------------------------
(* PokerHand.legal_actions and PokerHand.apply_action *)

(* max(0, self.current_bet - player.bet) *)
ToCall(h, idx) == Max2(0, h.current_bet - h.players[idx].bet)

legal_actions(h, idx) ==
    IF h.hand_over \/ h.players[idx].folded \/ h.players[idx].all_in
         \/ h.players[idx].busted
      THEN <<>>
    ELSE IF ToCall(h, idx) > 0
      THEN <<"fold", "call">>
             \o (IF h.players[idx].stack + h.players[idx].bet > h.current_bet
                   THEN <<"raise">> ELSE <<>>)
    ELSE <<"check">> \o (IF h.players[idx].stack > 0 THEN <<"bet">> ELSE <<>>)

(* the seats _find_next_to_act returns when it comes to them *)
OwesAction(h, p) ==
    /\ ~(p.folded \/ p.busted \/ p.all_in)
    /\ (p.bet # h.current_bet \/ ~p.has_acted)

(* seeded fault: a seat that has matched the bet is passed over even if it  *)
(* has not acted                                                            *)
FindNextMutant(h) ==
    IF h.current_player_index = NONE THEN NONE
    ELSE FirstIn(_iter_from(h, h.current_player_index),
                 {idx \in DOMAIN h.players :
                    /\ ~(h.players[idx].folded \/ h.players[idx].busted
                           \/ h.players[idx].all_in)
                    /\ h.players[idx].bet # h.current_bet})

_find_next_to_act(h) ==
    IF h.current_player_index = NONE THEN NONE
    ELSE FirstIn(_iter_from(h, h.current_player_index),
                 {idx \in DOMAIN h.players : OwesAction(h, h.players[idx])})

(* community_cards.append(deck.pop()), n times *)
RECURSIVE PopToBoard(_, _)
PopToBoard(h, n) ==
    IF n = 0 THEN h
    ELSE PopToBoard([h EXCEPT !.community_cards = Append(@, Last(h.deck)),
                              !.deck = Front(@)],
                    n - 1)

(* seeded fault: the turn is skipped, its card dealt with the flop *)
AdvanceBoardMutant(h) ==
    IF h.phase = "preflop" THEN PopToBoard([h EXCEPT !.phase = "flop"], 4)
    ELSE IF h.phase = "flop" THEN PopToBoard([h EXCEPT !.phase = "river"], 1)
    ELSE h

_advance_board(h) ==
    IF h.phase = "preflop" THEN PopToBoard([h EXCEPT !.phase = "flop"], 3)
    ELSE IF h.phase = "flop" THEN PopToBoard([h EXCEPT !.phase = "turn"], 1)
    ELSE IF h.phase = "turn" THEN PopToBoard([h EXCEPT !.phase = "river"], 1)
    ELSE h

(* seeded fault: current_bet is left as the round had it *)
RoundResetMutant(h) ==
    [h EXCEPT !.players = Force([i \in DOMAIN h.players |->
                  [h.players[i] EXCEPT !.bet = 0, !.has_acted = FALSE]]),
              !.min_raise = h.big_blind]

(* _complete_betting_round: the loop and the two assignments after it *)
RoundReset(h) ==
    [h EXCEPT !.players = Force([i \in DOMAIN h.players |->
                  [h.players[i] EXCEPT !.bet = 0, !.has_acted = FALSE]]),
              !.current_bet = 0,
              !.min_raise = h.big_blind]

(* _complete_betting_round after _advance_board *)
RoundTurn(h) ==
    ShowdownIfNoPlayer(
        [h EXCEPT !.current_player_index = _next_active_index(h, h.dealer_index)])

(* _complete_betting_round from 'if self.phase == "river"' on *)
RoundNext(h) ==
    IF h.phase = "river" THEN _resolve_showdown(h)
    ELSE RoundTurn(_advance_board(h))

_complete_betting_round(h) == RoundNext(RoundReset(h))

AdvanceTo(h, next_index) ==
    IF next_index = NONE THEN _complete_betting_round(h)
    ELSE [h EXCEPT !.current_player_index = next_index]

_advance_turn_or_round(h) == AdvanceTo(h, _find_next_to_act(h))

(* str.lower on the labels submitted: "FOLD" is the one with upper case *)
Lower(action) ==
    IF action = "FOLD" THEN "fold" ELSE action

ActionLabels == {"fold", "check", "call", "bet", "raise"}

(* a branch of apply_action ends in a raise ... *)
Fail(h, message) == [err |-> message, h |-> h, logged_amount |-> 0]

(* ... or falls through to "player.has_acted = True" *)
Pass(h, logged_amount) == [err |-> "", h |-> h, logged_amount |-> logged_amount]

FoldBranch(h, idx) == Pass([h EXCEPT !.players[idx].folded = TRUE], 0)

CheckBranch(h, idx, to_call) ==
    IF to_call # 0 THEN Fail(h, "cannot check facing a bet") ELSE Pass(h, 0)

CallBranch(h, idx, to_call) ==
    IF to_call = 0 THEN Fail(h, "nothing to call")
    ELSE Pass(_commit(h, idx, to_call), Min2(h.players[idx].stack, to_call))

(* the bet branch from "self._commit(player, commit)" on *)
BetDone(h, idx, commit) ==
    Pass([h EXCEPT !.current_bet = h.players[idx].bet, !.min_raise = commit],
         h.players[idx].bet)

(* the bet branch from "commit = desired_total - player.bet" on *)
BetCommit(h, idx, commit) ==
    IF commit <= 0 THEN Fail(h, "insufficient chips to bet")
    ELSE BetDone(_commit(h, idx, commit), idx, commit)

BetBranch(h, idx, amount) ==
    IF h.current_bet # 0 THEN Fail(h, "bet not allowed, must raise")
    ELSE IF amount <= 0 THEN Fail(h, "bet amount must be positive")
    ELSE IF amount < h.big_blind THEN Fail(h, "bet must be at least the big blind")
    ELSE BetCommit(h, idx,
                   Min2(h.players[idx].bet + h.players[idx].stack, amount)
                     - h.players[idx].bet)

(* seeded fault: min_raise is set only by a raise that reaches min_total *)
RaiseDoneMutant(h, idx, h0, desired_total) ==
    Pass([h EXCEPT !.min_raise =
                       IF desired_total >= h0.current_bet + h0.min_raise
                         THEN desired_total - h0.current_bet ELSE @,
                   !.current_bet = desired_total],
         h.players[idx].bet)

(* the raise branch from "self._commit(player, commit)" on; h0 is the hand  *)
(* before the commit                                                        *)
RaiseDone(h, idx, h0, desired_total) ==
    Pass([h EXCEPT !.min_raise = desired_total - h0.current_bet,
                   !.current_bet = desired_total],
         h.players[idx].bet)

(* seeded fault: the chips are committed before the commit is validated *)
RaiseCommitMutant(h, idx, to_call, desired_total) ==
    IF desired_total - h.players[idx].bet <= to_call
      THEN Fail(_commit(h, idx, desired_total - h.players[idx].bet),
                "raise must exceed call amount")
      ELSE RaiseDone(_commit(h, idx, desired_total - h.players[idx].bet),
                     idx, h, desired_total)

(* the raise branch from "commit = desired_total - player.bet" on *)
RaiseCommit(h, idx, to_call, desired_total) ==
    IF desired_total - h.players[idx].bet <= to_call
      THEN Fail(h, "raise must exceed call amount")
      ELSE RaiseDone(_commit(h, idx, desired_total - h.players[idx].bet),
                     idx, h, desired_total)

(* seeded fault: the amount is not lifted to min_total *)
RaiseBranchMutant(h, idx, amount, to_call) ==
    IF h.current_bet = 0 THEN Fail(h, "nothing to raise")
    ELSE IF amount <= h.current_bet THEN Fail(h, "raise must increase bet")
    ELSE RaiseCommit(h, idx, to_call,
                     Min2(h.players[idx].bet + h.players[idx].stack, amount))

RaiseBranch(h, idx, amount, to_call) ==
    IF h.current_bet = 0 THEN Fail(h, "nothing to raise")
    ELSE IF amount <= h.current_bet THEN Fail(h, "raise must increase bet")
    ELSE RaiseCommit(h, idx, to_call,
                     Min2(h.players[idx].bet + h.players[idx].stack,
                          Max2(amount, h.current_bet + h.min_raise)))

(* seeded fault: the hand goes on with one seat left *)
SettleMutant(h) == _advance_turn_or_round(h)

(* apply_action from 'if self._active_player_count() <= 1' on *)
Settle(h) ==
    IF _active_player_count(h) <= 1 THEN _finish_single_player(h)
    ELSE _advance_turn_or_round(h)

(* apply_action from "player.has_acted = True" on *)
AfterAction(h, idx, action, logged_amount) ==
    Settle([h EXCEPT !.players[idx].has_acted = TRUE,
                     !.actions = Append(@, ActionRecord(h.players[idx].id, action,
                                                        logged_amount, h.phase))])

Conclude(b, idx, action) ==
    IF b.err # "" THEN [err |-> b.err, h |-> b.h]
    ELSE [err |-> "", h |-> AfterAction(b.h, idx, action, b.logged_amount)]

(* the if/elif chain of apply_action on the lowered label *)
Branch(h, idx, action, amount, to_call) ==
    IF action = "fold" THEN FoldBranch(h, idx)
    ELSE IF action = "check" THEN CheckBranch(h, idx, to_call)
    ELSE IF action = "call" THEN CallBranch(h, idx, to_call)
    ELSE IF action = "bet" THEN BetBranch(h, idx, amount)
    ELSE RaiseBranch(h, idx, amount, to_call)

(* apply_action from "action = action.lower()" on *)
ApplyLabel(h, idx, action, amount) ==
    IF action \notin ActionLabels THEN [err |-> "unknown action", h |-> h]
    ELSE Conclude(Branch(h, idx, action, amount, ToCall(h, idx)), idx, action)

(* seeded fault: the turn is not checked *)
ApplyAnySeat(h, idx, action, amount) ==
    IF h.hand_over THEN [err |-> "hand already finished", h |-> h]
    ELSE ApplyLabel(h, idx, Lower(action), amount)

(* apply_action(self.players[idx], action, amount) *)
apply_action(h, idx, action, amount) ==
    IF h.hand_over THEN [err |-> "hand already finished", h |-> h]
    ELSE IF idx # h.current_player_index
      THEN [err |-> "not this player's turn", h |-> h]
    ELSE ApplyLabel(h, idx, Lower(action), amount)

(* fallback_action, as <<label, amount>> *)
fallback_action(h, idx) ==
    IF "check" \in SeqToSet(legal_actions(h, idx)) THEN <<"check", 0>>
    ELSE IF "call" \in SeqToSet(legal_actions(h, idx))
              /\ h.players[idx].stack >= ToCall(h, idx)
      THEN <<"call", ToCall(h, idx)>>
    ELSE <<"fold", 0>>

-----------------------------------------------------------------------------
(* The hands explored *)

(* A table: the stacks by seat, the dealer, the blinds *)
Table(stacks, dealer, sb, bb) ==
    [stacks |-> stacks, dealer |-> dealer, small_blind |-> sb, big_blind |-> bb]

DEFAULT_SMALL_BLIND == 10

DEFAULT_BIG_BLIND == 20

Tables ==
    {Table(<<1000, 1000>>, 0, DEFAULT_SMALL_BLIND, DEFAULT_BIG_BLIND),
     Table(<<1000, 1000>>, 1, DEFAULT_SMALL_BLIND, DEFAULT_BIG_BLIND),
     Table(<<15, 1000>>, 1, DEFAULT_SMALL_BLIND, DEFAULT_BIG_BLIND),
     Table(<<40, 40, 40>>, 2, DEFAULT_SMALL_BLIND, DEFAULT_BIG_BLIND),
     Table(<<40, 40, 30>>, 2, DEFAULT_SMALL_BLIND, DEFAULT_BIG_BLIND),
     Table(<<101, 100>>, 1, 50, 100),
     Table(<<40, 0, 40>>, 0, DEFAULT_SMALL_BLIND, DEFAULT_BIG_BLIND),
     Table(<<1000, 0>>, 0, DEFAULT_SMALL_BLIND, DEFAULT_BIG_BLIND)}

(* the cards of fresh_deck at the positions of the sequence at *)
DeckAt(at) == Force([k \in 1..Len(at) |-> fresh_deck[at[k]]])

(* A deck as random.shuffle can leave it: the cards of top at the tail, in  *)
(* the order they are popped; the rest below them in fresh_deck order.      *)
Rigged(top) ==
    DeckAt(Ascending({k \in 1..52 : fresh_deck[k] \notin SeqToSet(top)}))
      \o Reverse(top)

(* rank indices: 2 is 1, ..., K is 12, A is 13; suits S H D C are 1..4 *)
ShuffleOutcomes ==
    {Rigged(<<Card(3, 1), Card(13, 1), Card(13, 2), Card(4, 4), Card(2, 4),
              Card(2, 3), Card(12, 1), Card(12, 2), Card(11, 3), Card(11, 4),
              Card(1, 1)>>),
     Rigged(<<Card(13, 1), Card(6, 3), Card(8, 4), Card(13, 2), Card(1, 4),
              Card(7, 3), Card(12, 1), Card(11, 2), Card(4, 3), Card(2, 4),
              Card(3, 1)>>)}

(* the amounts submitted with a bet or a raise *)
AmountChoices == {0, 10, 25, 40, 50, 1000}

ActionInputs == ActionLabels \cup {"FOLD", "muck"}

(* at most this many accepted bets and raises are explored in one hand *)
MaxAggression == 2

-----------------------------------------------------------------------------
(* State: players is the seat list, game the PokerHand's other fields,      *)
(* last_call the last call made and the error it ended with ("" for none),  *)
(* before the hand as that call found it.  A hand driven directly has no    *)
(* room around it and no request in flight.                                 *)

NoRoom == [id |-> "None"]

HandOf(ps, g) == [players |-> ps] @@ g

GameOf(h) == Force([f \in (DOMAIN h) \ {"players"} |-> h[f]])

Hand == HandOf(players, game)

Call(op, seat, action, amount, err) ==
    [op |-> op, seat |-> seat, action |-> action, amount |-> amount, err |-> err]

(* the accepted bets and raises of the hand *)
Aggression(h) ==
    Cardinality({k \in 1..Len(h.actions) : h.actions[k].action \in {"bet", "raise"}})

(* the seats of table t as they are before the hand *)
Seated(t) ==
    Force([i \in 0..(Len(t.stacks) - 1) |->
             [Player(i, t.stacks[i + 1]) EXCEPT !.seat_index = i]])

InitTable(t, ps) ==
    /\ players = ps
    /\ game = GameOf(PokerHandInit(ps, t.dealer, t.small_blind, t.big_blind))
    /\ last_call = Call("init", NONE, "", 0, "")
    /\ before = PokerHandInit(ps, t.dealer, t.small_blind, t.big_blind)
    /\ room = NoRoom
    /\ tasks = <<>>

Init == \E t \in Tables : InitTable(t, Seated(t))

StartOutcome(r) ==
    /\ players' = r.h.players
    /\ game' = GameOf(r.h)
    /\ last_call' = Call("start", NONE, "", 0, r.err)
    /\ before' = Hand
    /\ UNCHANGED <<room, tasks>>

(* PokerHand.start() on the constructed hand *)
Start ==
    /\ game.phase = "waiting"
    /\ \E shuffled \in ShuffleOutcomes : StartOutcome(start(Hand, shuffled))

(* a rejected call is recorded by its seat and its error *)
ApplyOutcome(r, seat, action, amount) ==
    /\ r.err = "" => Aggression(r.h) <= MaxAggression
    /\ players' = r.h.players
    /\ game' = GameOf(r.h)
    /\ last_call' = IF r.err = ""
                      THEN Call("apply_action", seat, action, amount, "")
                      ELSE Call("apply_action", seat, "", 0, r.err)
    /\ before' = Hand
    /\ UNCHANGED <<room, tasks>>

(* PokerHand.apply_action(player, action, amount), by any seat.  A run is   *)
(* not explored beyond a rejected call.                                     *)
ApplyAction ==
    /\ game.phase # "waiting"
    /\ last_call.err = ""
    /\ \E seat \in DOMAIN players, action \in ActionInputs :
         \E amount \in (IF Lower(action) \in {"bet", "raise"}
                          THEN AmountChoices ELSE {0}) :
            ApplyOutcome(apply_action(Hand, seat, action, amount),
                         seat, action, amount)

Next == Start \/ ApplyAction

Spec == Init /\ [][Next]_vars

-----------------------------------------------------------------------------
(* Properties.  Each is a predicate on a state: it reads the call just made *)
(* (last_call), the hand as the call found it (before) and the hand as the  *)
(* call left it (Hand).                                                     *)

Accepted == last_call.op = "apply_action" /\ last_call.err = ""

Rejected == last_call.op = "apply_action" /\ last_call.err # ""

Started == last_call.op = "start" /\ last_call.err = ""

(* the call just made ended the hand *)
Resolved == last_call.err = "" /\ game.hand_over /\ ~before.hand_over

Stacks(h) ==
    SumOver(Force([i \in DOMAIN h.players |-> h.players[i].stack]),
            DOMAIN h.players)

TotalChips(h) == Stacks(h) + h.pot

(* the seats in winners; a seat's id is its index *)
WinnerSeats == {game.winners[k].player_id : k \in 1..Len(game.winners)}

(* C1: every call, start with its blinds included, leaves the sum of the    *)
(* stacks and the pot as it found it; when a call resolves the hand the pot *)
(* is 0 and no seat outside winners holds more than before the call, so the *)
(* whole former pot went to the winners.                                    *)
ChipConservation ==
    /\ TotalChips(Hand) = TotalChips(before)
    /\ game.phase = "waiting" => game.pot = 0
    /\ Resolved =>
         /\ game.pot = 0
         /\ Stacks(Hand) = TotalChips(before)
         /\ \A i \in (DOMAIN players) \ WinnerSeats :
               players[i].stack <= before.players[i].stack

(* a call resolved a hand whose pot had grown past the blinds, and a winner *)
(* holds more than before                                                   *)
PotAwarded ==
    /\ Resolved
    /\ Accepted
    /\ before.pot >= 100
    /\ \E w \in WinnerSeats : players[w].stack > before.players[w].stack

(* C2: a rejected apply_action leaves the hand, seats included, exactly as  *)
(* it found it.                                                             *)
FailureAtomicity == Rejected => Hand = before

(* a raise rejected by the last validation of its branch, with chips in the *)
(* pot                                                                      *)
LateRejection ==
    /\ Rejected
    /\ last_call.err = "raise must exceed call amount"
    /\ game.pot > 0

(* C3: the label of an accepted apply_action, lowered as the engine lowers  *)
(* it, is in legal_actions of the acting seat in the hand the call found.   *)
TurnLegality ==
    Accepted =>
       Lower(last_call.action) \in SeqToSet(legal_actions(before, last_call.seat))

(* C4: apply_action by a seat that is not the current player, or on a       *)
(* finished hand, is rejected whatever the label and amount; an accepted    *)
(* call was made by the current player of an unfinished hand and appends    *)
(* one record, with that player's id and the lowered label.                 *)
OnlySeatToAct ==
    /\ game.phase # "waiting" =>
         \A seat \in DOMAIN players, action \in ActionInputs :
            \A amount \in (IF Lower(action) \in {"bet", "raise"}
                             THEN AmountChoices ELSE {0}) :
               (game.hand_over \/ seat # game.current_player_index)
                  => apply_action(Hand, seat, action, amount).err # ""
    /\ Accepted =>
         /\ ~before.hand_over
         /\ last_call.seat = before.current_player_index
         /\ Len(game.actions) = Len(before.actions) + 1
         /\ Front(game.actions) = before.actions
         /\ Last(game.actions).player_id
               = before.players[before.current_player_index].id
         /\ Last(game.actions).action = Lower(last_call.action)
         /\ Last(game.actions).action \in ActionLabels

(* a seat that is not the current player of a running hand was rejected *)
WrongTurnRejected ==
    /\ Rejected
    /\ last_call.err = "not this player's turn"
    /\ ~game.hand_over
    /\ game.current_player_index # NONE
    /\ last_call.seat # game.current_player_index

(* an accepted raise *)
AcceptedRaise == Accepted /\ Lower(last_call.action) = "raise"

(* current_bet + min_raise *)
MinTotal(h) == h.current_bet + h.min_raise

(* all the chips seat idx can have in front of it this round *)
Reach(h, idx) == h.players[idx].bet + h.players[idx].stack

(* the seat that made the last call can raise to 60 and beyond *)
AmpleChips == Reach(before, last_call.seat) >= 1000

(* the total the last record logs: the seat's bet once the chips are in *)
RaisedTo == Last(game.actions).amount

(* the call left the betting round open *)
SameRound == ~game.hand_over /\ game.phase = before.phase

(* C5, as amended: a raise to a total at or below current_bet is rejected;  *)
(* an accepted raise is carried out to max(amount, current_bet + min_raise),*)
(* capped by the seat's chips, and while the round stays open (a seat is    *)
(* left to answer) that total is current_bet and what it adds to the old    *)
(* current_bet is min_raise.  So at current_bet 20 and min_raise 20 a seat  *)
(* with ample chips raising to 25 or to 40 leaves current_bet 40 and        *)
(* min_raise 20, and after that a raise to a total below 60 leaves          *)
(* current_bet 60 and min_raise 20.                                         *)
MinRaiseLifted ==
    /\ (game.phase # "waiting" /\ game.current_player_index # NONE) =>
         \A amount \in AmountChoices :
            amount <= game.current_bet
               => apply_action(Hand, game.current_player_index,
                               "raise", amount).err # ""
    /\ AcceptedRaise =>
         /\ last_call.amount > before.current_bet
         /\ RaisedTo = Min2(Reach(before, last_call.seat),
                            Max2(last_call.amount, MinTotal(before)))
         /\ SameRound => /\ game.current_bet = RaisedTo
                         /\ game.min_raise = RaisedTo - before.current_bet
    /\ (AcceptedRaise /\ AmpleChips /\ SameRound /\ before.phase = "preflop"
          /\ before.current_bet = 20 /\ before.min_raise = 20
          /\ last_call.amount \in {25, 40})
         => game.current_bet = 40 /\ game.min_raise = 20
    /\ (AcceptedRaise /\ AmpleChips /\ SameRound /\ before.phase = "preflop"
          /\ before.current_bet = 40 /\ before.min_raise = 20
          /\ last_call.amount < 60)
         => game.current_bet = 60 /\ game.min_raise = 20

(* after a raise to 40 over the big blind of 20, a raise to 50 was accepted *)
(* and carried out to 60                                                    *)
UnderRaiseLifted ==
    /\ AcceptedRaise
    /\ AmpleChips
    /\ before.phase = "preflop"
    /\ Last(before.actions).action = "raise"
    /\ before.current_bet = 40
    /\ before.min_raise = 20
    /\ last_call.amount = 50
    /\ game.current_bet = 60

(* C5, as stated: at current_bet 20 and min_raise 20 a raise to 25 by a     *)
(* seat with ample chips, a seat being left to answer, is not accepted; a   *)
(* raise to 40 leaves min_raise 20 and current_bet 40; after that no raise  *)
(* to a total below 60 is accepted.                                         *)
MinRaiseRejects ==
    /\ (AcceptedRaise /\ AmpleChips /\ SameRound /\ before.phase = "preflop"
          /\ before.current_bet = 20 /\ before.min_raise = 20)
         => /\ last_call.amount # 25
            /\ last_call.amount = 40
                  => game.current_bet = 40 /\ game.min_raise = 20
    /\ (AcceptedRaise /\ AmpleChips /\ before.phase = "preflop"
          /\ before.current_bet = 40 /\ before.min_raise = 20)
         => last_call.amount >= 60

(* the seat of S that comes first clockwise after seat from; seat from      *)
(* itself comes last                                                        *)
Clockwise(n, from, S) ==
    CHOOSE i \in S : \A j \in S : (i - from - 1 + n) % n <= (j - from - 1 + n) % n

NotBusted == {i \in DOMAIN players : ~players[i].busted}

NotAllIn == {i \in NotBusted : ~players[i].all_in}

(* C6: when start returns, the small blind is the first non-busted seat     *)
(* clockwise after the dealer and posted first, the big blind the next      *)
(* non-busted seat after it, and the seat to act the next non-busted seat   *)
(* after the big blind that is not all-in, the hand being shown down at     *)
(* once when there is none; with 3 seats in the hand and the dealer at 2    *)
(* that is small blind 0, big blind 1, first to act 2.                      *)
BlindPositions ==
    Started =>
       /\ game.small_blind_index
             = Clockwise(NumPlayers(Hand), game.dealer_index, NotBusted)
       /\ game.big_blind_index
             = Clockwise(NumPlayers(Hand), game.small_blind_index, NotBusted)
       /\ game.big_blind_index # game.small_blind_index
       /\ game.actions[1].action = "small_blind"
       /\ game.actions[1].player_id = players[game.small_blind_index].id
       /\ game.actions[2].action = "big_blind"
       /\ game.actions[2].player_id = players[game.big_blind_index].id
       /\ IF NotAllIn = {}
            THEN game.hand_over /\ game.current_player_index = NONE
            ELSE /\ ~game.hand_over
                 /\ game.current_player_index
                       = Clockwise(NumPlayers(Hand), game.big_blind_index, NotAllIn)
       /\ (NumPlayers(Hand) = 3 /\ game.dealer_index = 2
             /\ NotBusted = {0, 1, 2} /\ 2 \in NotAllIn)
            => /\ game.small_blind_index = 0
               /\ game.big_blind_index = 1
               /\ game.current_player_index = 2

(* a 3-seat hand with the dealer at 2 has started *)
ThreeSeatsStarted ==
    /\ Started
    /\ NumPlayers(Hand) = 3
    /\ NotBusted = {0, 1, 2}
    /\ game.dealer_index = 2
    /\ game.small_blind_index = 0
    /\ game.big_blind_index = 1
    /\ game.current_player_index = 2

(* the hand is the 2-seat one with 2000 chips in all (1000 a seat at its    *)
(* start), blinds 10 and 20, and the dealer at seat d                       *)
HeadsUp(d) ==
    /\ DOMAIN players = {0, 1}
    /\ TotalChips(Hand) = 2000
    /\ \A i \in DOMAIN players : ~players[i].busted
    /\ game.small_blind = 10
    /\ game.big_blind = 20
    /\ game.dealer_index = d

(* the blinds as seat 0 and seat 1 post them *)
BlindsOfSeats0And1 ==
    <<ActionRecord(players[0].id, "small_blind", 10, "preflop"),
      ActionRecord(players[1].id, "big_blind", 20, "preflop")>>

(* the first action after the blinds was a call by seat 0 *)
Seat0Called ==
    /\ Len(game.actions) >= 3
    /\ SubSeq(game.actions, 1, 2) = BlindsOfSeats0And1
    /\ game.actions[3].action = "call"
    /\ game.actions[3].player_id = players[0].id

(* C7, as amended: heads-up with 1000 chips a seat, blinds 10 and 20 and    *)
(* the dealer at seat 1, seat 0 posts the small blind of 10, seat 1 the big *)
(* blind of 20, and seat 0 is first to act; after seat 0 calls its bet is   *)
(* 20 and the turn passes to seat 1, still preflop; the preflop round       *)
(* completes when seat 1 then checks.                                       *)
HeadsUpWalk ==
    /\ (Started /\ HeadsUp(1)) =>
          /\ game.actions = BlindsOfSeats0And1
          /\ players[0].bet = 10
          /\ players[1].bet = 20
          /\ game.current_player_index = 0
    /\ (Accepted /\ HeadsUp(1) /\ Seat0Called /\ Len(game.actions) = 3) =>
          /\ players[0].bet = 20
          /\ game.phase = "preflop"
          /\ game.current_player_index = 1
    /\ (Accepted /\ HeadsUp(1) /\ Seat0Called /\ Len(game.actions) = 4
          /\ game.actions[4].action = "check") =>
          /\ game.phase = "flop"
          /\ Len(game.community_cards) = 3
          /\ game.current_bet = 0
          /\ \A i \in DOMAIN players : players[i].bet = 0

(* seat 0 called and seat 1 checked its option: the flop is out *)
BigBlindChecked ==
    /\ Accepted
    /\ HeadsUp(1)
    /\ Seat0Called
    /\ Len(game.actions) = 4
    /\ game.actions[4].action = "check"
    /\ game.actions[4].player_id = players[1].id
    /\ game.phase = "flop"

(* C7, as stated: the same with the dealer at seat 0, and the preflop round *)
(* complete as soon as seat 0 has called.                                   *)
HeadsUpWalkDealer0 ==
    /\ (Started /\ HeadsUp(0)) =>
          /\ game.actions = BlindsOfSeats0And1
          /\ players[0].bet = 10
          /\ players[1].bet = 20
          /\ game.current_player_index = 0
    /\ (Accepted /\ HeadsUp(0) /\ Seat0Called /\ Len(game.actions) = 3) =>
          game.phase = "flop"

(* C8: an accepted action that leaves at most one seat neither folded nor   *)
(* busted ends the hand in that step: that seat's stack grows by the whole  *)
(* pot (30 when the small blind folds to the blinds heads-up), it is the    *)
(* one winner and by "No contest", not by an evaluated hand, no card leaves *)
(* the deck, the pot is 0, hand_over is set, the phase is showdown and      *)
(* there is no current player.                                              *)
FoldOut ==
    (Accepted /\ Cardinality(InHand(Hand)) <= 1) =>
       /\ game.hand_over
       /\ game.pot = 0
       /\ game.phase = "showdown"
       /\ game.current_player_index = NONE
       /\ game.community_cards = before.community_cards
       /\ game.deck = before.deck
       /\ Cardinality(InHand(Hand)) = 1
       /\ \A w \in InHand(Hand) :
             /\ players[w].stack = before.players[w].stack + before.pot
             /\ game.winners = <<[player_id |-> players[w].id,
                                  hand |-> "No contest",
                                  cards |-> Labels(players[w].hole_cards)]>>
             /\ (Len(before.actions) = 2 /\ before.pot = 30)
                   => players[w].stack = before.players[w].stack + 30
       /\ \A i \in (DOMAIN players) \ InHand(Hand) :
             players[i].stack = before.players[i].stack

(* heads-up, the small blind folded to the blinds and the big blind took 30 *)
SmallBlindFolded ==
    /\ Accepted
    /\ DOMAIN players = {0, 1}
    /\ Len(game.actions) = 3
    /\ game.actions[3].action = "fold"
    /\ game.actions[3].player_id = players[game.small_blind_index].id
    /\ before.pot = 30
    /\ game.hand_over
    /\ players[game.big_blind_index].stack
          = before.players[game.big_blind_index].stack + 30

(* the chips the accepted action just logged moved from its seat's stack:   *)
(* a call logs them, a bet or a raise logs the bet they brought the seat to *)
Committed ==
    IF Last(game.actions).action = "call" THEN Last(game.actions).amount
    ELSE IF Last(game.actions).action \in {"bet", "raise"}
      THEN Last(game.actions).amount - before.players[last_call.seat].bet
    ELSE 0

(* the pot as the award found it *)
PotAtAward == before.pot + Committed

(* what seat w gained by the award *)
Gain(w) ==
    players[w].stack
      - (before.players[w].stack - (IF w = last_call.seat THEN Committed ELSE 0))

(* how many winners sit at a lower seat than w *)
PlaceInSeatOrder(w) == Cardinality({v \in WinnerSeats : v < w})

(* C9: when an accepted action resolves the hand with N winners and a pot   *)
(* of P, each winner gains P div N, the first P mod N of them in seat order *)
(* gain one chip more, and the gains sum to P, the amount the hand reports  *)
(* as won; with P = 201 and N = 2 the lower seat gains 101, the other 100.  *)
SplitPot ==
    (Resolved /\ Accepted /\ WinnerSeats # {}) =>
       /\ Len(game.winners) = Cardinality(WinnerSeats)
       /\ \A w \in WinnerSeats :
             Gain(w) = (PotAtAward \div Cardinality(WinnerSeats))
                         + (IF PlaceInSeatOrder(w)
                                 < PotAtAward % Cardinality(WinnerSeats)
                              THEN 1 ELSE 0)
       /\ SumOver(Force([w \in WinnerSeats |-> Gain(w)]), WinnerSeats) = PotAtAward
       /\ game.last_event.chips = PotAtAward
       /\ (PotAtAward = 201 /\ Cardinality(WinnerSeats) = 2)
            => /\ Gain(SetMin(WinnerSeats)) = 101
               /\ Gain(SetMax(WinnerSeats)) = 100

(* two seats tied for a pot of 201 and the lower seat took the odd chip *)
OddChipToLowerSeat ==
    /\ Resolved
    /\ Accepted
    /\ Cardinality(WinnerSeats) = 2
    /\ PotAtAward = 201
    /\ Gain(SetMin(WinnerSeats)) = 101
    /\ Gain(SetMax(WinnerSeats)) = 100

(* evaluate_best_hand of each seat of S on the board of h *)
Strengths(h, S) ==
    Force([i \in S |-> evaluate_best_hand(h.players[i].hole_cards,
                                          h.community_cards)])

(* the seats of S no seat of S beats *)
Strongest(S, strengths) ==
    {i \in S : \A j \in S : compare_strength(strengths[i], strengths[j]) >= 0}

(* the seats in winners are the strongest ones, under the name of their hand *)
WinnersAre(S, strengths) ==
    /\ WinnerSeats = Strongest(S, strengths)
    /\ \A k \in 1..Len(game.winners) :
          game.winners[k].hand = strengths[game.winners[k].player_id].name

(* the call just made took the hand to showdown with two seats or more *)
Showdown == Resolved /\ Cardinality(InHand(Hand)) >= 2

(* C10: when a hand is shown down between two or more seats that are        *)
(* neither folded nor busted, the board holds exactly 5 cards and winners   *)
(* holds, once each, exactly the contenders whose best hand no contender's  *)
(* beats under compare_strength; no folded or busted seat is among them.    *)
ShowdownWinners ==
    Showdown =>
       /\ Len(game.community_cards) = 5
       /\ Len(game.winners) = Cardinality(WinnerSeats)
       /\ WinnerSeats \subseteq InHand(Hand)
       /\ WinnersAre(InHand(Hand), Strengths(Hand, InHand(Hand)))

(* three seats showed down, two of them tied and won, the third lost *)
TiedShowdown ==
    /\ Showdown
    /\ Cardinality(InHand(Hand)) = 3
    /\ Cardinality(WinnerSeats) = 2
    /\ 0 \notin WinnerSeats

-----------------------------------------------------------------------------
(* Rooms (rooms.py).  A room R is the record of the Room object's fields:   *)
(* R.players is the seat list, the very list the room's hand is given, and  *)
(* R.game holds the hand's other fields, NoGame standing for None.  A seat  *)
(* of a room carries is_ai, is_host and secret besides the fields the hand  *)
(* reads.  uuid4 ids are the order of creation, which is the seat index.    *)

NoGame == [game |-> "None"]

(* what secrets.token_hex returns, call after call *)
SecretTokens == <<"4f1c", "9a0e", "c7d2", "e35b">>

generate_secret(k) == SecretTokens[k + 1]

create_player(id, stack, is_ai, is_host) ==
    Player(id, stack)
      @@ [is_ai |-> is_ai, is_host |-> is_host, secret |-> generate_secret(id)]

(* the mutex is free, or held by the request of a client *)
Free == "free"

(* Room.__init__ *)
RoomInit(host, seats, ai_players, stack, small_blind, big_blind) ==
    [players |-> (0 :> host),
     total_seats |-> seats,
     ai_requested |-> ai_players,
     starting_stack |-> stack,
     small_blind |-> small_blind,
     big_blind |-> big_blind,
     lock |-> Free,
     host_player_id |-> host.id,
     game |-> NoGame,
     dealer_index |-> NONE,
     state_version |-> 1]

(* the hand of room R, as the PokerHand methods take it *)
HandIn(R) == HandOf(R.players, R.game)

(* room R with its hand, and the seats the hand shares with it, set to h *)
WithHand(R, h) == [R EXCEPT !.players = h.players, !.game = GameOf(h)]

Humans(R) == {i \in DOMAIN R.players : ~R.players[i].is_ai}

Bots(R) == {i \in DOMAIN R.players : R.players[i].is_ai}

_human_slots(R) == R.total_seats - R.ai_requested

_human_count(R) == Cardinality(Humans(R))

(* the seat list with player appended at seat_index len(players) *)
Seat(R, player) ==
    Force([i \in 0..NumPlayers(R) |->
             IF i < NumPlayers(R) THEN R.players[i]
             ELSE [player EXCEPT !.seat_index = NumPlayers(R)]])

AddSeated(R, is_ai) ==
    [R EXCEPT !.players = Seat(R, create_player(NumPlayers(R), R.starting_stack,
                                                is_ai, FALSE)),
              !.state_version = @ + 1]

(* seeded fault: a human is seated without ensure_space_for_human *)
AddPlayerMutant(R, is_ai) ==
    IF NumPlayers(R) >= R.total_seats
      THEN [err |-> "Room is at capacity", R |-> R]
    ELSE [err |-> "", R |-> AddSeated(R, is_ai)]

(* Room.add_player, ensure_space_for_human included *)
add_player(R, is_ai) ==
    IF ~is_ai /\ _human_count(R) >= _human_slots(R)
      THEN [err |-> "Room is full for human players", R |-> R]
    ELSE IF NumPlayers(R) >= R.total_seats
      THEN [err |-> "Room is at capacity", R |-> R]
    ELSE [err |-> "", R |-> AddSeated(R, is_ai)]

(* one turn of the loop of _spawn_ai_players: the bot added, its secret "" *)
SpawnOne(r) ==
    IF r.err # "" THEN r
    ELSE [r EXCEPT !.R.players[NumPlayers(r.R) - 1].secret = ""]

RECURSIVE SpawnLoop(_, _)
SpawnLoop(r, needed) ==
    IF needed <= 0 \/ r.err # "" THEN r
    ELSE SpawnLoop(SpawnOne(add_player(r.R, TRUE)), needed - 1)

(* seeded fault: bots are spawned until every seat of the room is taken *)
SpawnMutant(R) ==
    SpawnLoop([err |-> "", R |-> R], R.total_seats - NumPlayers(R))

(* Room._spawn_ai_players *)
_spawn_ai_players(R) ==
    SpawnLoop([err |-> "", R |-> R], R.ai_requested - Cardinality(Bots(R)))

(* Room.get_player: the seat of player_id, NONE for 404 *)
get_player(R, player_id) ==
    IF \E i \in DOMAIN R.players : R.players[i].id = player_id
      THEN SetMin({i \in DOMAIN R.players : R.players[i].id = player_id})
      ELSE NONE

(* Room.verify_secret: the error, "" when the secret is the seat's *)
verify_secret(R, player_id, secret) ==
    IF get_player(R, player_id) = NONE THEN "Player not found"
    ELSE IF R.players[get_player(R, player_id)].secret # secret
      THEN "Invalid player secret"
    ELSE ""

_active_indices(R) ==
    {i \in DOMAIN R.players : R.players[i].stack > 0 /\ ~R.players[i].busted}

(* Room._next_dealer_position: the seats it can return; random.choice on    *)
(* the first hand, the first seat with chips after the dealer later on      *)
DealerWalk(R) ==
    Force([k \in 1..NumPlayers(R) |->
             (((R.dealer_index + 1) % NumPlayers(R)) + (k - 1)) % NumPlayers(R)])

_next_dealer_position(R) ==
    IF R.dealer_index = NONE THEN _active_indices(R)
    ELSE {FirstIn(DealerWalk(R), _active_indices(R))}

(* the detail start_hand raises over a running hand, put into English *)
HandInProgress == "the hand is not over yet, no new deal"

(* start_hand from the dealer's choice on: the hand built and started *)
Dealt(R, dealer, r) ==
    IF r.err # "" THEN [err |-> r.err, R |-> R]
    ELSE [err |-> "",
          R |-> [WithHand(R, r.h) EXCEPT !.dealer_index = dealer,
                                         !.state_version = @ + 1]]

StartWithDealer(R, dealer, shuffled) ==
    Dealt(R, dealer,
          start(PokerHandInit(R.players, dealer, R.small_blind, R.big_blind),
                shuffled))

(* start_hand after the bots are spawned, spawned being what the spawning   *)
(* left: an error raised from here on leaves the bots in their seats        *)
StartSpawned(spawned, dealer, shuffled) ==
    IF spawned.err # "" THEN spawned
    ELSE IF Cardinality({i \in DOMAIN spawned.R.players :
                           spawned.R.players[i].stack > 0}) < 2
      THEN [err |-> "Need at least two players with chips", R |-> spawned.R]
    ELSE IF _active_indices(spawned.R) = {}
      THEN [err |-> "No players with chips", R |-> spawned.R]
    ELSE StartWithDealer(spawned.R, dealer, shuffled)

(* seeded fault: a new hand is dealt over a running one *)
StartHandMutant(R, requester, dealer, shuffled) ==
    IF R.players[requester].id # R.host_player_id
      THEN [err |-> "Only the host can start a hand", R |-> R]
    ELSE StartSpawned(_spawn_ai_players(R), dealer, shuffled)

(* Room.start_hand(requesting_player), dealer being the seat                *)
(* _next_dealer_position returns and shuffled the deck as shuffled          *)
start_hand(R, requester, dealer, shuffled) ==
    IF R.players[requester].id # R.host_player_id
      THEN [err |-> "Only the host can start a hand", R |-> R]
    ELSE IF R.game # NoGame /\ ~R.game.hand_over
      THEN [err |-> HandInProgress, R |-> R]
    ELSE StartSpawned(_spawn_ai_players(R), dealer, shuffled)

(* the dealers start_hand can come to choose among in room R *)
DealerChoices(R) ==
    IF _spawn_ai_players(R).err # "" \/ _active_indices(_spawn_ai_players(R).R) = {}
      THEN {NONE}
      ELSE _next_dealer_position(_spawn_ai_players(R).R)

(* seeded fault: the action is applied and state_version left as it was *)
HandledMutant(R, r) ==
    IF r.err # "" THEN [err |-> r.err, R |-> R]
    ELSE [err |-> "", R |-> WithHand(R, r.h)]

Handled(R, r) ==
    IF r.err # "" THEN [err |-> r.err, R |-> R]
    ELSE [err |-> "", R |-> [WithHand(R, r.h) EXCEPT !.state_version = @ + 1]]

(* Room.handle_action(player, action, amount) *)
handle_action(R, idx, action, amount) ==
    IF R.game = NoGame THEN [err |-> "No active hand", R |-> R]
    ELSE Handled(R, apply_action(HandIn(R), idx, action, amount))

(* Room._current_player: the seat, NONE for None *)
_current_player(R) ==
    IF R.game = NoGame THEN NONE ELSE R.game.current_player_index

-----------------------------------------------------------------------------
(* Snapshots (Room.state_for, Player.as_dict).  room_id and created_at,     *)
(* fixed at creation, and the names are left out.                           *)

(* payload["cards"]: the labels of the cards, or their number *)
CardsEntry(p, reveal_cards) ==
    IF reveal_cards THEN [shown |-> Labels(p.hole_cards)]
    ELSE [count |-> Len(p.hole_cards)]

(* Player.as_dict(reveal_cards, include_secret) *)
as_dict(p, reveal_cards, include_secret) ==
    [id |-> p.id, stack |-> p.stack, bet |-> p.bet, is_ai |-> p.is_ai,
     is_host |-> p.is_host, folded |-> p.folded, all_in |-> p.all_in,
     busted |-> p.busted, seat |-> p.seat_index,
     cards |-> CardsEntry(p, reveal_cards)]
      @@ (IF include_secret THEN [secret |-> p.secret] ELSE <<>>)

(* the id of the seat at index idx of the hand, None for a None index *)
IdAt(R, idx) == IF idx = NONE THEN NONE ELSE R.players[idx].id

(* reveal_all *)
RevealAll(R) == R.game # NoGame /\ R.game.hand_over

(* seeded fault: every seat's cards are shown to every viewer *)
EntriesMutant(R, viewer) ==
    Force([i \in DOMAIN R.players |->
             as_dict(R.players[i], TRUE,
                     viewer # NONE /\ R.players[viewer].id = R.players[i].id)])

(* state["players"] *)
Entries(R, viewer) ==
    Force([i \in DOMAIN R.players |->
             as_dict(R.players[i],
                     RevealAll(R) \/ (viewer # NONE
                                        /\ R.players[i].id = R.players[viewer].id),
                     viewer # NONE /\ R.players[viewer].id = R.players[i].id)])

(* the fields state_for sets whether there is a hand or not *)
RoomFields(R, viewer) ==
    [total_seats |-> R.total_seats, ai_players |-> R.ai_requested,
     small_blind |-> R.small_blind, big_blind |-> R.big_blind,
     state_version |-> R.state_version, host_player_id |-> R.host_player_id,
     players |-> Entries(R, viewer)]

(* the fields state_for takes from the hand, and their defaults *)
GameFields(R) ==
    IF R.game = NoGame
      THEN [phase |-> "waiting", pot |-> 0, community_cards |-> <<>>,
            actions |-> <<>>, winners |-> <<>>, current_player_id |-> NONE,
            last_event |-> NoEvent, dealer_player_id |-> NONE,
            small_blind_player_id |-> NONE, big_blind_player_id |-> NONE,
            current_bet |-> 0]
      ELSE [phase |-> R.game.phase, pot |-> R.game.pot,
            community_cards |-> Labels(R.game.community_cards),
            actions |-> R.game.actions, winners |-> R.game.winners,
            current_player_id |-> IdAt(R, R.game.current_player_index),
            last_event |-> R.game.last_event,
            dealer_player_id |-> IdAt(R, R.game.dealer_index),
            small_blind_player_id |-> IdAt(R, R.game.small_blind_index),
            big_blind_player_id |-> IdAt(R, R.game.big_blind_index),
            current_bet |-> R.game.current_bet]

(* state["self"], set when there are a viewer and a hand *)
SelfFields(R, viewer) ==
    IF viewer = NONE \/ R.game = NoGame THEN <<>>
    ELSE [self |-> [player_id |-> R.players[viewer].id,
                    legal_actions |-> legal_actions(HandIn(R), viewer),
                    to_call |-> ToCall(HandIn(R), viewer),
                    stack |-> R.players[viewer].stack]]

(* Room.state_for(viewer), viewer a seat or NONE *)
state_for(R, viewer) ==
    Force(RoomFields(R, viewer) @@ GameFields(R) @@ SelfFields(R, viewer))

-----------------------------------------------------------------------------
(* The AI adapter (ai.py) and the auto-play loop (Room.auto_play_ai) *)

(* the fields of build_ai_context that choose_action reads *)
build_ai_context(h, idx) ==
    [player_id |-> h.players[idx].id,
     legal_actions |-> legal_actions(h, idx),
     to_call |-> ToCall(h, idx),
     stack |-> h.players[idx].stack]

Decision(action, amount) == [action |-> action, amount |-> amount]

NoDecision == Decision("", 0)

(* DeepSeekClient._fallback *)
_fallback(context) ==
    IF "check" \in SeqToSet(context.legal_actions) THEN Decision("check", 0)
    ELSE IF "call" \in SeqToSet(context.legal_actions)
              /\ context.stack >= context.to_call
      THEN Decision("call", context.to_call)
    ELSE Decision("fold", 0)

(* no usable reply: no key, a failed request, a malformed body *)
NoReply == Decision("no reply", 0)

(* DeepSeekClient.choose_action, reply being what _parse_decision makes of  *)
(* the endpoint's answer                                                    *)
choose_action(context, reply) ==
    IF reply = NoReply THEN _fallback(context)
    ELSE IF reply.action \notin SeqToSet(context.legal_actions)
      THEN _fallback(context)
    ELSE reply

(* A step of a request is what it does from one suspension to the next, or  *)
(* to its end.  Its outcome: the error it ends with if any, the room as it  *)
(* leaves it, where the request stands (pc), the context choose_action was  *)
(* given when it stands there, the snapshot returned when it returns one,   *)
(* and the seat auto-play applied an action for, if it did.                 *)
NoState == [state |-> "None"]

NoContext == [player_id |-> NONE]

Outcome(err, R, pc, context, state, applied) ==
    [err |-> err, R |-> R, pc |-> pc, context |-> context, state |-> state,
     applied |-> applied]

(* async with self.lock, entered and left *)
Acquire(R, c) == [R EXCEPT !.lock = c]

Release(R) == [R EXCEPT !.lock = Free]

(* seeded fault: the adapter is awaited inside the async with block *)
LeaveForAdapterMutant(R) == R

(* auto_play_ai leaving its first block to await choose_action *)
LeaveForAdapter(R) == Release(R)

(* an HTTPException: the request ends there, the mutex released *)
Raise(err, R) == Outcome(err, Release(R), "idle", NoContext, NoState, NONE)

(* the last block of start_hand and submit_action: the snapshot returned *)
Return(R, viewer, applied) ==
    Outcome("", Release(R), "idle", NoContext, state_for(R, viewer), applied)

(* seeded fault: the loop goes on when the seat to act is a human one *)
NothingToPlayMutant(R) ==
    \/ _current_player(R) = NONE
    \/ R.game = NoGame
    \/ R.game.hand_over

(* the test at the top of the loop of auto_play_ai *)
NothingToPlay(R) ==
    \/ _current_player(R) = NONE
    \/ ~R.players[_current_player(R)].is_ai
    \/ R.game = NoGame
    \/ R.game.hand_over

(* auto_play_ai from the top of its loop to choose_action, or, when it      *)
(* returns, to the end of the request                                       *)
AutoPlayTop(R, viewer, applied) ==
    IF NothingToPlay(R) THEN Return(R, viewer, applied)
    ELSE Outcome("", LeaveForAdapter(R), "choose_action",
                 build_ai_context(HandIn(R), _current_player(R)),
                 NoState, applied)

(* seeded fault: auto-play applies the action and leaves state_version *)
AppliedMutant(R, current, r) ==
    IF r.err # "" THEN Raise(r.err, R)
    ELSE Outcome("", Release(WithHand(R, r.h)), "sleep", NoContext, NoState,
                 current)

(* the second block once the action is applied: the version raised, then    *)
(* asyncio.sleep(0)                                                         *)
Applied(R, current, r) ==
    IF r.err # "" THEN Raise(r.err, R)
    ELSE Outcome("", Release([WithHand(R, r.h) EXCEPT !.state_version = @ + 1]),
                 "sleep", NoContext, NoState, current)

(* seeded fault: the ValueError is not caught *)
ApplyFallbackMutant(R, current, fb) == Raise("rejected", R)

(* except ValueError: the fallback action applied *)
ApplyFallback(R, current, fb) ==
    Applied(R, current, apply_action(HandIn(R), current, fb[1], fb[2]))

(* try: apply_action(current, decision.action, decision.amount) *)
ApplyDecisionFor(R, current, r) ==
    IF r.err = "" THEN Applied(R, current, r)
    ELSE ApplyFallback(R, current, fallback_action(HandIn(R), current))

(* auto_play_ai from the return of choose_action to asyncio.sleep(0), or,   *)
(* when it returns, to the end of the request                               *)
AutoPlayApply(R, viewer, decision) ==
    IF R.game = NoGame \/ R.game.hand_over THEN Return(R, viewer, NONE)
    ELSE IF _current_player(R) = NONE \/ ~R.players[_current_player(R)].is_ai
      THEN AutoPlayTop(R, viewer, NONE)
    ELSE ApplyDecisionFor(R, _current_player(R),
                          apply_action(HandIn(R), _current_player(R),
                                       decision.action, decision.amount))

-----------------------------------------------------------------------------
(* Requests (RoomManager, main.py).  A request names its player by id and   *)
(* secret; NoId is an id no player has, None or "" where the API lets one   *)
(* through.                                                                 *)

NoId == NONE

(* create_room: the error its checks raise, "" for none *)
create_room_error(seats, ai_players) ==
    IF seats < 2 \/ seats > 9 THEN "Seats must be between 2 and 9"
    ELSE IF ai_players >= seats THEN "AI players must be fewer than seats"
    ELSE ""

(* create_room, once its checks have passed *)
create_room(seats, ai_players, stack, small_blind, big_blind) ==
    RoomInit(create_player(0, stack, FALSE, TRUE), seats, ai_players, stack,
             small_blind, big_blind)

Joined(R, r) ==
    IF r.err # "" THEN Raise(r.err, R)
    ELSE Return(r.R, NumPlayers(r.R) - 1, NONE)

(* join_room, and the snapshot main.py takes for the player just seated *)
join_room(R) == Joined(R, add_player(R, FALSE))

(* seeded fault: the snapshot is taken without auto-play being driven *)
StartedRoomMutant(r, viewer) ==
    IF r.err # "" THEN Raise(r.err, r.R)
    ELSE Return(r.R, viewer, NONE)

StartedRoom(r, viewer) ==
    IF r.err # "" THEN Raise(r.err, r.R)
    ELSE AutoPlayTop(r.R, viewer, NONE)

(* RoomManager.start_hand up to the first suspension of auto_play_ai, or to *)
(* its end                                                                  *)
RoomManager_start_hand(R, player_id, secret, dealer, shuffled) ==
    IF verify_secret(R, player_id, secret) # ""
      THEN Raise(verify_secret(R, player_id, secret), R)
    ELSE StartedRoom(start_hand(R, get_player(R, player_id), dealer, shuffled),
                     get_player(R, player_id))

(* RoomManager.submit_action up to the first suspension of auto_play_ai, or *)
(* to its end                                                               *)
submit_action(R, player_id, secret, action, amount) ==
    IF verify_secret(R, player_id, secret) # ""
      THEN Raise(verify_secret(R, player_id, secret), R)
    ELSE StartedRoom(handle_action(R, get_player(R, player_id), action, amount),
                     get_player(R, player_id))

(* RoomManager.fetch_state *)
fetch_state(R, player_id, secret) ==
    IF player_id = NoId \/ secret = "" THEN Return(R, NONE, NONE)
    ELSE IF verify_secret(R, player_id, secret) # ""
      THEN Raise(verify_secret(R, player_id, secret), R)
    ELSE Return(R, get_player(R, player_id), NONE)

-----------------------------------------------------------------------------
(* The room as a state machine.  room holds the Room's fields other than    *)
(* the seat list (players) and the hand (game).  Each client has at most    *)
(* one request under way; tasks[c] tells where the request of client c is   *)
(* suspended (choose_action or sleep), the seat it will take its snapshot   *)
(* for, the context it gave choose_action and the hand's action log as it   *)
(* was when that context was built (seen).  A step is                       *)
(* a request from a suspension to the next: nothing else runs meanwhile,    *)
(* the event loop switching tasks only where one is suspended.  last_call   *)
(* is the request the last step belonged to, the context and the log the    *)
(* request held when the step began and how the step ended, before the room *)
(* as the step found it.                                                    *)

(* the rooms explored, as create_room is asked for them *)
RoomConfigs ==
    {[seats |-> 3, ai_players |-> 1, stack |-> 100,
      small_blind |-> 50, big_blind |-> 100],
     [seats |-> 2, ai_players |-> 1, stack |-> 100,
      small_blind |-> DEFAULT_SMALL_BLIND, big_blind |-> DEFAULT_BIG_BLIND]}

Clients == {"a", "b"}

(* the secret of a request that is no player's *)
WrongSecret == "0000"

(* what the endpoint can be made to answer *)
ReplyAmounts == {0, 1000}

Replies ==
    {NoReply}
      \cup {Decision(action, 0) : action \in ActionLabels}
      \cup {Decision(action, amount) :
               action \in {"bet", "raise"}, amount \in ReplyAmounts}

(* the amounts of the requests *)
RequestAmounts == {0, 1000}

(* new requests are explored while state_version is below this *)
MaxVersion == 6

Whole == room @@ [players |-> players, game |-> game]

RoomPart(R) == Force([f \in (DOMAIN R) \ {"players", "game"} |-> R[f]])

Idle ==
    [op |-> "", viewer |-> NONE, pc |-> "idle", context |-> NoContext,
     seen |-> <<>>]

(* the ids and secrets requests come with *)
Credentials ==
    UNION {{<<i, secret>> : secret \in {players[i].secret, "", WrongSecret}} :
             i \in DOMAIN players}
      \cup {<<NoId, "">>}

Request(op, step, client, player_id, secret, action, amount) ==
    [op |-> op, step |-> step, client |-> client, player_id |-> player_id,
     secret |-> secret, action |-> action, amount |-> amount]

(* a request that raised is recorded by its name, its player and its error *)
Recorded(call, o) ==
    IF o.err = "" THEN call
    ELSE Request(call.op, call.step, call.client, call.player_id, "", "", 0)

RoomStep(call, viewer, o) ==
    /\ players' = o.R.players
    /\ game' = o.R.game
    /\ room' = RoomPart(o.R)
    /\ tasks' = [tasks EXCEPT ![call.client] =
                    IF o.pc = "idle" THEN Idle
                    ELSE [op |-> call.op, viewer |-> viewer, pc |-> o.pc,
                          context |-> o.context,
                          seen |-> IF o.pc = "choose_action"
                                     THEN o.R.game.actions ELSE <<>>]]
    /\ last_call' = Recorded(call, o)
                      @@ [err |-> o.err, state |-> o.state,
                          applied |-> o.applied,
                          context |-> tasks[call.client].context,
                          seen |-> tasks[call.client].seen,
                          changed |-> (call.step # "call" \/ o.R # Whole)]
    /\ before' = Whole

RoomCreated(R) ==
    /\ players = R.players
    /\ game = R.game
    /\ room = RoomPart(R)
    /\ tasks = [c \in Clients |-> Idle]
    /\ last_call = Request("create_room", "call", "", 0, "", "", 0)
                     @@ [err |-> "", state |-> state_for(R, 0),
                         applied |-> NONE, context |-> NoContext,
                         seen |-> <<>>, changed |-> TRUE]
    /\ before = R

RoomModelInit ==
    \E cfg \in RoomConfigs :
       /\ create_room_error(cfg.seats, cfg.ai_players) = ""
       /\ RoomCreated(create_room(cfg.seats, cfg.ai_players, cfg.stack,
                                  cfg.small_blind, cfg.big_blind))

(* a client with no request under way can make one; the mutex is free for   *)
(* it to take.  A run is not explored beyond a request that changed nothing *)
CanCall(c) ==
    /\ tasks[c] = Idle
    /\ room.lock = Free
    /\ last_call.changed

CanMutate(c) == CanCall(c) /\ room.state_version < MaxVersion

JoinRoom(c) ==
    /\ CanMutate(c)
    /\ RoomStep(Request("join_room", "call", c, NoId, "", "", 0), NONE,
                join_room(Acquire(Whole, c)))

StartHand(c) ==
    /\ CanMutate(c)
    /\ \E cred \in Credentials, dealer \in DealerChoices(Whole),
          shuffled \in ShuffleOutcomes :
          RoomStep(Request("start_hand", "call", c, cred[1], cred[2], "", 0),
                   get_player(Whole, cred[1]),
                   RoomManager_start_hand(Acquire(Whole, c), cred[1], cred[2],
                                          dealer, shuffled))

SubmitAction(c) ==
    /\ CanMutate(c)
    /\ \E cred \in Credentials, action \in ActionLabels :
         \E amount \in (IF action \in {"bet", "raise"}
                          THEN RequestAmounts ELSE {0}) :
          RoomStep(Request("submit_action", "call", c, cred[1], cred[2],
                           action, amount),
                   get_player(Whole, cred[1]),
                   submit_action(Acquire(Whole, c), cred[1], cred[2],
                                 action, amount))

FetchState(c) ==
    /\ CanCall(c)
    /\ \E cred \in Credentials :
          RoomStep(Request("fetch_state", "call", c, cred[1], cred[2], "", 0),
                   NONE, fetch_state(Acquire(Whole, c), cred[1], cred[2]))

Decided(c, decision) ==
    RoomStep(Request(tasks[c].op, "choose_action", c, NoId, "",
                     decision.action, decision.amount),
             tasks[c].viewer,
             AutoPlayApply(Acquire(Whole, c), tasks[c].viewer, decision))

(* choose_action returns its decision to the request of client c *)
AdapterReturns(c) ==
    /\ tasks[c].pc = "choose_action"
    /\ room.lock = Free
    /\ last_call.changed
    /\ \E reply \in Replies : Decided(c, choose_action(tasks[c].context, reply))

(* asyncio.sleep(0) returns to the request of client c *)
Resume(c) ==
    /\ tasks[c].pc = "sleep"
    /\ room.lock = Free
    /\ last_call.changed
    /\ RoomStep(Request(tasks[c].op, "sleep", c, NoId, "", "", 0),
                tasks[c].viewer,
                AutoPlayTop(Acquire(Whole, c), tasks[c].viewer, NONE))

RoomNext ==
    \E c \in Clients :
       \/ JoinRoom(c)
       \/ StartHand(c)
       \/ SubmitAction(c)
       \/ FetchState(c)
       \/ AdapterReturns(c)
       \/ Resume(c)

RoomSpec == RoomModelInit /\ [][RoomNext]_vars

(* The room under fair scheduling.  A request suspended in auto-play goes   *)
(* on whatever the other clients did last, so its two steps are taken here  *)
(* without the pruning of RoomSpec.  The rooms include one with two         *)
(* automated seats, which play on between themselves once the host is out   *)
(* of the hand.                                                             *)
FairConfigs ==
    {[seats |-> 3, ai_players |-> 2, stack |-> 100,
      small_blind |-> DEFAULT_SMALL_BLIND, big_blind |-> DEFAULT_BIG_BLIND]}

FairRoomInit ==
    \E cfg \in FairConfigs :
       /\ create_room_error(cfg.seats, cfg.ai_players) = ""
       /\ RoomCreated(create_room(cfg.seats, cfg.ai_players, cfg.stack,
                                  cfg.small_blind, cfg.big_blind))

(* new requests are made while state_version is below this; the steps of a  *)
(* request under way are never held back                                    *)
MaxFairVersion == 5

(* choose_action returns its decision to the request of client c *)
ChooseActionReturns(c) ==
    /\ tasks[c].pc = "choose_action"
    /\ room.lock = Free
    /\ \E reply \in Replies : Decided(c, choose_action(tasks[c].context, reply))

(* asyncio.sleep(0) returns to the request of client c *)
SleepReturns(c) ==
    /\ tasks[c].pc = "sleep"
    /\ room.lock = Free
    /\ \E o \in {AutoPlayTop(Acquire(Whole, c), tasks[c].viewer, NONE)} :
          RoomStep(Request(tasks[c].op, "sleep", c, NoId, "", "", 0),
                   tasks[c].viewer, o)

FairRoomNext ==
    \E c \in Clients :
       \/ /\ room.state_version < MaxFairVersion
          /\ \/ JoinRoom(c)
             \/ StartHand(c)
             \/ SubmitAction(c)
             \/ FetchState(c)
       \/ ChooseActionReturns(c)
       \/ SleepReturns(c)

(* choose_action is awaited by the request of client c, the mutex free:    *)
(* ChooseActionReturns(c) can be taken                                      *)
AdapterAwaited(c) == tasks[c].pc = "choose_action" /\ room.lock = Free

(* the step just taken is ChooseActionReturns(c): no other step records the *)
(* return of choose_action to c                                             *)
AdapterReturned(c) ==
    /\ tasks[c].pc = "choose_action"
    /\ last_call'.step = "choose_action"
    /\ last_call'.client = c

(* What the scheduling gives.  The event loop resumes a task that yielded   *)
(* with asyncio.sleep(0): weak fairness of SleepReturns.  Every call of the *)
(* adapter returns, the endpoint being called with a timeout and any        *)
(* failure falling back: weak fairness of ChooseActionReturns, written out  *)
(* as "not awaited again and again, or returned again and again", that is   *)
(* WF_vars(ChooseActionReturns(c)) with its enabling condition and its      *)
(* steps named by the two definitions above.                                *)
FairRoomSpec ==
    /\ FairRoomInit
    /\ [][FairRoomNext]_vars
    /\ \A c \in Clients : WF_vars(SleepReturns(c))
    /\ \A c \in Clients :
          []<>(~AdapterAwaited(c)) \/ []<><<AdapterReturned(c)>>_vars

(* The hand evaluator on its own: two 5-card hands are drawn, each is      *)
(* evaluated, and the two strengths are compared.  The hands are the        *)
(* 5-card combinations of the first EvalDeckSize cards of EvalCards, which  *)
(* hold every category of hand, the wheel and the 6-high straight, suited   *)
(* and not.                                                                 *)
EvalCards ==
    <<Card(1, 1), Card(1, 2), Card(1, 3), Card(1, 4), Card(13, 1),
      Card(2, 1), Card(3, 1), Card(4, 1), Card(5, 1), Card(2, 2),
      Card(2, 3), Card(6, 1), Card(12, 2)>>

EvalDeckSize == 11

EvalHands == Combinations(1, EvalDeckSize, 5)

Compared(op, left, right, left_strength, right_strength, result) ==
    [op |-> op, left |-> left, right |-> right,
     left_strength |-> left_strength, right_strength |-> right_strength,
     result |-> result]

EvalInit ==
    /\ players = <<>>
    /\ game = NoGame
    /\ before = NoEvent
    /\ room = NoRoom
    /\ tasks = <<>>
    /\ \E l, r \in 1..Len(EvalHands) :
          last_call = Compared("deal", Pick(EvalCards, EvalHands[l]),
                               Pick(EvalCards, EvalHands[r]),
                               NoStrength, NoStrength, 0)

(* evaluate_five_card_hand(cards), for each of the two hands *)
EvaluateHands ==
    /\ last_call.op = "deal"
    /\ last_call' = [last_call EXCEPT
                       !.op = "evaluate_five_card_hand",
                       !.left_strength = evaluate_five_card_hand(last_call.left),
                       !.right_strength = evaluate_five_card_hand(last_call.right)]
    /\ UNCHANGED <<players, game, before, room, tasks>>

(* compare_strength(left, right) *)
CompareStrengths ==
    /\ last_call.op = "evaluate_five_card_hand"
    /\ last_call' = [last_call EXCEPT
                       !.op = "compare_strength",
                       !.result = compare_strength(last_call.left_strength,
                                                   last_call.right_strength)]
    /\ UNCHANGED <<players, game, before, room, tasks>>

EvalNext == EvaluateHands \/ CompareStrengths

EvalSpec == EvalInit /\ [][EvalNext]_vars

-----------------------------------------------------------------------------
(* Properties of the room.  Each is a predicate on a state: it reads the    *)
(* step just made (last_call), the room as the step found it (before) and   *)
(* the room as the step left it (Whole).                                    *)

(* the step just made began a request of the kind op and no error ended it *)
Succeeded(op) ==
    last_call.op = op /\ last_call.step = "call" /\ last_call.err = ""

(* the step just made is auto-play applying an action for a seat *)
AutoPlayed == last_call.applied # NONE

(* C11: a join, a start_hand, a submit_action that succeeds and every       *)
(* action auto-play applies leave state_version strictly above what it was, *)
(* and no step of any request, however the requests interleave, leaves it   *)
(* below.                                                                   *)
VersionMonotone ==
    /\ room.state_version >= before.state_version
    /\ (Succeeded("join_room") \/ Succeeded("start_hand")
          \/ Succeeded("submit_action") \/ AutoPlayed)
         => room.state_version > before.state_version

(* auto-play applied an action in a hand that a human had acted in, while   *)
(* another request was suspended in the loop too                            *)
VersionRaisedByAutoPlay ==
    /\ AutoPlayed
    /\ room.state_version > before.state_version
    /\ \E k \in 1..Len(before.game.actions) :
          ~before.players[before.game.actions[k].player_id].is_ai
    /\ \A c \in Clients : tasks[c] # Idle

(* the clients whose request awaits the adapter's decision *)
Choosing == {c \in Clients : tasks[c].pc = "choose_action"}

(* C12: while a request is suspended at choose_action nobody holds the      *)
(* room's mutex, so a client with no request under way can then take it:    *)
(* its fetch_state returns the snapshot of the room as it stands and its    *)
(* join is answered, before the adapter returns.                            *)
MutexFreeAtAdapter ==
    Choosing # {} =>
       /\ room.lock = Free
       /\ \A c \in Clients \ Choosing :
             /\ fetch_state(Acquire(Whole, c), NoId, "").state
                   = state_for(Whole, NONE)
             /\ join_room(Acquire(Whole, c)).R.lock = Free

(* a fetch_state was answered while another client's request was at         *)
(* choose_action                                                            *)
FetchedWhileChoosing ==
    /\ last_call.op = "fetch_state"
    /\ last_call.err = ""
    /\ last_call.state = state_for(Whole, NONE)
    /\ Choosing # {}
    /\ last_call.client \notin Choosing

(* the step just made returned the snapshot of a start_hand or of a         *)
(* submit_action                                                            *)
Returned ==
    /\ last_call.op \in {"start_hand", "submit_action"}
    /\ last_call.err = ""
    /\ last_call.state # NoState

(* the seat to act is a human's *)
HumanToAct ==
    /\ game.current_player_index # NONE
    /\ ~players[game.current_player_index].is_ai

(* C13: the snapshot a start_hand or a submit_action returns is the room's  *)
(* state at a stable point: the hand is over (and the snapshot shows the    *)
(* showdown phase and no seat to act) or the seat to act, the one the       *)
(* snapshot names, is a human's; whatever requests ran in between.          *)
StableOnReturn ==
    Returned =>
       /\ last_call.state.state_version = room.state_version
       /\ last_call.state.current_player_id
             = IdAt(Whole, game.current_player_index)
       /\ last_call.state.phase = game.phase
       /\ game.hand_over \/ HumanToAct
       /\ game.hand_over
            => /\ last_call.state.phase = "showdown"
               /\ last_call.state.current_player_id = NONE

(* a start_hand returned after auto-play had played, to a human's turn in a *)
(* hand that a seat had joined since the deal                               *)
ReturnedAfterAutoPlay ==
    /\ Returned
    /\ last_call.op = "start_hand"
    /\ last_call.step = "sleep"
    /\ HumanToAct
    /\ \E i \in DOMAIN players : players[i].hole_cards = <<>> /\ ~players[i].busted
    /\ \E k \in 1..Len(game.actions) : players[game.actions[k].player_id].is_ai

(* the hand rejects the decision auto-play has just been given *)
DecisionRejected ==
    apply_action(HandIn(before), last_call.applied,
                 last_call.action, last_call.amount).err # ""

(* fallback_action for the seat to act, by its rule *)
SafePlay(h, idx) ==
    IF ToCall(h, idx) = 0 THEN <<"check", 0>>
    ELSE IF h.players[idx].stack >= ToCall(h, idx)
      THEN <<"call", ToCall(h, idx)>>
    ELSE <<"fold", 0>>

(* C14: no step of the auto-play loop ends in an error.  When it applies a  *)
(* decision, it is for the automated seat to act; if the hand rejects the   *)
(* decision the fallback action is what gets applied; either way exactly    *)
(* one ActionRecord, of that seat, is appended and state_version goes up by *)
(* exactly one.  Whenever an automated seat is to act, its fallback action  *)
(* (check if nothing is to call, else call if the stack covers it, else     *)
(* fold) is one the hand accepts.                                           *)
AutoPlayNeverErrors ==
    /\ last_call.step \in {"choose_action", "sleep"} => last_call.err = ""
    /\ AutoPlayed =>
         /\ last_call.applied = before.game.current_player_index
         /\ before.players[last_call.applied].is_ai
         /\ Len(game.actions) = Len(before.game.actions) + 1
         /\ Front(game.actions) = before.game.actions
         /\ Last(game.actions).player_id = before.players[last_call.applied].id
         /\ Last(game.actions).action
               = (IF DecisionRejected
                    THEN fallback_action(HandIn(before), last_call.applied)[1]
                    ELSE last_call.action)
         /\ room.state_version = before.state_version + 1
    /\ (game # NoGame /\ ~game.hand_over /\ game.current_player_index # NONE
          /\ players[game.current_player_index].is_ai)
         => LET idx == game.current_player_index
                safe == SafePlay(Hand, idx)
            IN  /\ fallback_action(Hand, idx) = safe
                /\ apply_action(Hand, idx, safe[1], safe[2]).err = ""

(* the hand rejected a decision that was legal when choose_action was       *)
(* given its context, and auto-play applied the fallback action             *)
FallbackApplied ==
    /\ AutoPlayed
    /\ DecisionRejected
    /\ last_call.action \in {"call", "raise"}
    /\ Last(game.actions).action = "check"

(* those who can ask for a snapshot: the seats, and NONE for nobody *)
Viewers == DOMAIN players \cup {NONE}

(* another card than c *)
OtherCard(c) == (c + 4) % 52

(* the room with other cards in the hands of the seats other than viewer *)
OtherHoleCards(R, viewer) ==
    [R EXCEPT !.players =
        Force([i \in DOMAIN R.players |->
                 IF i = viewer THEN R.players[i]
                 ELSE [R.players[i] EXCEPT !.hole_cards =
                         Force([k \in 1..Len(R.players[i].hole_cards) |->
                                  OtherCard(R.players[i].hole_cards[k])])]])]

(* what the snapshot state shows of seat i is its cards, not their number *)
Shown(state, i) == "shown" \in DOMAIN state.players[i].cards

SecrecyFor(viewer, state) ==
    /\ \A i \in DOMAIN players :
          /\ Shown(state, i) <=> (RevealAll(Whole) \/ i = viewer)
          /\ Shown(state, i)
               => state.players[i].cards.shown = Labels(players[i].hole_cards)
          /\ ~Shown(state, i)
               => state.players[i].cards.count = Len(players[i].hole_cards)
          /\ "secret" \in DOMAIN state.players[i] <=> i = viewer
          /\ i = viewer => state.players[i].secret = players[i].secret
    /\ ~RevealAll(Whole) => state_for(OtherHoleCards(Whole, viewer), viewer) = state

(* C15: the snapshot state_for builds for a viewer shows the hole cards of  *)
(* a seat iff the hand is over or the seat is the viewer's, and shows of    *)
(* the other seats the number of their cards; while the hand is not over    *)
(* the snapshot is the same whatever cards the other seats hold; a secret   *)
(* is in the viewer's own entry and in no other.                            *)
HoleCardSecrecy ==
    \A viewer \in Viewers : SecrecyFor(viewer, state_for(Whole, viewer))

(* a human was returned a snapshot of a running hand that shows its own two *)
(* cards and, of an automated seat's two cards, the number                  *)
OwnCardsOnly ==
    /\ Returned
    /\ ~game.hand_over
    /\ \E v \in Humans(Whole), i \in Bots(Whole) :
          /\ last_call.state = state_for(Whole, v)
          /\ Len(last_call.state.players[v].cards.shown) = 2
          /\ last_call.state.players[i].cards.count = 2

(* the step just made is a start_hand by a player whose secret was right *)
StartAsked ==
    /\ last_call.op = "start_hand"
    /\ last_call.step = "call"
    /\ last_call.err \notin {"Player not found", "Invalid player secret"}

ByHost == before.players[last_call.player_id].id = before.host_player_id

HandRunning(R) == R.game # NoGame /\ ~R.game.hand_over

Chipped(R) == {i \in DOMAIN R.players : R.players[i].stack > 0}

(* C16: a start_hand by a player other than the host fails; by the host     *)
(* over a hand that is not over it fails; either failure leaves the room,   *)
(* its hand, pot, bets, cards and dealer index included, as it was.  With   *)
(* no hand running, it fails when fewer than two seats have chips (the      *)
(* automated seats spawned by then counted) and leaves hand and dealer      *)
(* index as they were.  A start_hand that succeeds is the host's, found no  *)
(* hand or a hand that was over, and left at least two seats with cards;    *)
(* no other step changes the dealer index.                                  *)
StartHandGuards ==
    /\ StartAsked =>
         /\ ~ByHost => last_call.err = "Only the host can start a hand"
         /\ (ByHost /\ HandRunning(before)) => last_call.err = HandInProgress
         /\ last_call.err \in {"Only the host can start a hand", HandInProgress}
              => Whole = before
         /\ (ByHost /\ ~HandRunning(before))
              => (Cardinality(Chipped(_spawn_ai_players(before).R)) < 2
                    <=> last_call.err = "Need at least two players with chips")
         /\ last_call.err # ""
              => game = before.game /\ room.dealer_index = before.dealer_index
         /\ last_call.err = ""
              => /\ ByHost
                 /\ ~HandRunning(before)
                 /\ game # before.game
                 /\ game.dealer_index = room.dealer_index
                 /\ Cardinality({i \in DOMAIN players :
                                   Len(players[i].hole_cards) = 2}) >= 2
    /\ room.dealer_index # before.dealer_index
         => StartAsked /\ last_call.err = ""

(* the host asked for a new hand while one was running, with chips in the   *)
(* pot, and was refused                                                     *)
StartRefusedMidHand ==
    /\ StartAsked
    /\ ByHost
    /\ last_call.err = HandInProgress
    /\ game.pot > 0
    /\ ~game.hand_over

(* C17, as amended: after a start_hand that succeeds the room holds exactly *)
(* ai_requested automated seats, spawned before the deal (each was dealt    *)
(* its two cards), so the seats number the humans that had joined plus      *)
(* ai_requested: total_seats when every human slot had been taken, fewer    *)
(* otherwise.                                                               *)
BotsSpawnedAtStart ==
    Succeeded("start_hand") =>
       /\ Cardinality(Bots(Whole)) = room.ai_requested
       /\ Humans(Whole) = Humans(before)
       /\ NumPlayers(Whole) = _human_count(before) + room.ai_requested
       /\ NumPlayers(Whole) = room.total_seats
            <=> _human_count(before) = _human_slots(before)
       /\ \A i \in Bots(Whole) :
             /\ players[i].secret = ""
             /\ ~players[i].busted => Len(players[i].hole_cards) = 2

(* a hand was started with a human slot still open: fewer seats than        *)
(* total_seats, the automated one dealt in                                  *)
StartedShortOfSeats ==
    /\ Succeeded("start_hand")
    /\ NumPlayers(Whole) < room.total_seats
    /\ Bots(Whole) \ Bots(before) # {}
    /\ \A i \in Bots(Whole) : Len(players[i].hole_cards) = 2

(* C17, as stated: after a start_hand that succeeds the seats number        *)
(* total_seats, however many humans had joined.                             *)
AllSeatsTakenAtStart ==
    Succeeded("start_hand") => NumPlayers(Whole) = room.total_seats

(* the step just made is a join *)
JoinAsked == last_call.op = "join_room"

(* C18: a join fails, and leaves the room as it was, when the humans        *)
(* already number total_seats - ai_requested or the seats total_seats, and  *)
(* otherwise seats a human at the end of the seat list; add_player fails    *)
(* in the same cases for an automated seat but for the humans' budget.  In  *)
(* every state the seats number at most total_seats, the humans at most     *)
(* total_seats - ai_requested, the automated seats at most ai_requested;    *)
(* each seat's seat index is its position in the list, and no step removes  *)
(* a seat or changes the id, the kind or the index of one.                  *)
SeatCapacity ==
    /\ JoinAsked =>
         /\ last_call.err # ""
              <=> (_human_count(before) >= before.total_seats - before.ai_requested
                     \/ NumPlayers(before) >= before.total_seats)
         /\ last_call.err # "" => Whole = before
         /\ last_call.err = ""
              => /\ NumPlayers(Whole) = NumPlayers(before) + 1
                 /\ ~players[NumPlayers(before)].is_ai
    /\ add_player(Whole, TRUE).err # "" <=> NumPlayers(Whole) >= room.total_seats
    /\ NumPlayers(Whole) <= room.total_seats
    /\ _human_count(Whole) <= room.total_seats - room.ai_requested
    /\ Cardinality(Bots(Whole)) <= room.ai_requested
    /\ \A i \in DOMAIN players : players[i].seat_index = i
    /\ \A i \in DOMAIN before.players :
          /\ i \in DOMAIN players
          /\ players[i].id = before.players[i].id
          /\ players[i].is_ai = before.players[i].is_ai
          /\ players[i].seat_index = before.players[i].seat_index

(* a join was refused for want of a human slot while a seat, kept for an    *)
(* automated player not yet spawned, was still empty                        *)
JoinRefused ==
    /\ JoinAsked
    /\ last_call.err = "Room is full for human players"
    /\ NumPlayers(Whole) < room.total_seats

(* the seats that were dealt their two cards at the start of the hand *)
DealtIn == {i \in DOMAIN players : Len(players[i].hole_cards) = 2}

(* C19: in a hand that has been started, the seat to act, the seats counted *)
(* as remaining for the fold-out test and the winners are all seats that    *)
(* were dealt two cards at the hand's start: a seat that joined since       *)
(* is none of them.                                                         *)
LateJoinerSitsOut ==
    (game # NoGame /\ game.phase # "waiting") =>
       /\ game.current_player_index # NONE
            => game.current_player_index \in DealtIn
       /\ ~game.hand_over => InHand(Hand) \subseteq DealtIn
       /\ \A k \in 1..Len(game.winners) :
             game.winners[k].player_id \in DealtIn

(* the step just made appended the ActionRecord of an action (not of a      *)
(* blind) of an automated seat                                              *)
BotActed ==
    /\ game # NoGame
    /\ game # before.game
    /\ game.actions # <<>>
    /\ Last(game.actions).action \in ActionLabels
    /\ players[Last(game.actions).player_id].is_ai

(* C20: no submit_action succeeds for the id of an automated seat, whatever *)
(* the secret it comes with, and an ActionRecord of an automated seat is    *)
(* appended by auto-play only.                                              *)
BotsPlayedByAutoPlayOnly ==
    /\ Succeeded("submit_action") => ~before.players[last_call.player_id].is_ai
    /\ BotActed => AutoPlayed

(* C21: every decision auto-play applies is applied to the seat whose       *)
(* context choose_action was given for it, in the hand that context was     *)
(* built from, no action having been applied to that hand since: the seat   *)
(* is the one of the context and the hand's action log is the one the       *)
(* context was built on.                                                    *)
NoStaleDecision ==
    AutoPlayed =>
       /\ last_call.context.player_id = before.players[last_call.applied].id
       /\ last_call.seen = before.game.actions
       /\ last_call.context
             = build_ai_context(HandIn(before), last_call.applied)

-----------------------------------------------------------------------------
(* Further properties of the hand (Spec) *)

(* a hand that was started and is not over *)
Running == game.phase # "waiting" /\ ~game.hand_over

(* amounts to try a label with: those submitted, the big blind and one chip *)
(* above the bet to match                                                   *)
AmountsToTry(h) == AmountChoices \cup {h.big_blind, h.current_bet + 1}

(* C22: while the hand is not over every label legal_actions lists for the  *)
(* seat to act can be applied: with some amount apply_action accepts it.    *)
LegalActionsSound ==
    (Running /\ game.current_player_index # NONE) =>
       \A label \in SeqToSet(legal_actions(Hand, game.current_player_index)) :
          \E amount \in AmountsToTry(Hand) :
             apply_action(Hand, game.current_player_index, label, amount).err = ""

(* the seat next to the one that just acted, clockwise *)
NextSeat == (last_call.seat + 1) % NumPlayers(Hand)

(* C23: in a started hand at most one seat is the current player: it is one *)
(* seat of the table or none, and the seat it is has not folded, is not     *)
(* busted and is not all-in.                                                *)
CurrentPlayerCanAct ==
    game.phase # "waiting" =>
       /\ game.current_player_index \in DOMAIN players \cup {NONE}
       /\ game.current_player_index # NONE =>
            /\ ~players[game.current_player_index].folded
            /\ ~players[game.current_player_index].busted
            /\ ~players[game.current_player_index].all_in

(* an action was accepted, the seat after the one that acted has folded, is *)
(* busted or is all-in, and the turn went to another seat past it           *)
TurnSkippedSeat ==
    /\ Accepted
    /\ Running
    /\ game.current_player_index \notin {NONE, NextSeat, last_call.seat}
    /\ \/ players[NextSeat].folded
       \/ players[NextSeat].busted
       \/ players[NextSeat].all_in

(* C24: after start a hand is not over iff it has a current player, and a   *)
(* hand that is over has an empty pot and is in the showdown phase.         *)
NoStuckHand ==
    game.phase # "waiting" =>
       /\ ~game.hand_over <=> game.current_player_index # NONE
       /\ game.hand_over => game.pot = 0 /\ game.phase = "showdown"

(* an accepted action completed a betting round before the river with no    *)
(* seat left that can act, two seats or more still in the hand: the hand    *)
(* went to the showdown and is over                                         *)
AllInRunout ==
    /\ Accepted
    /\ Resolved
    /\ before.phase # "river"
    /\ Cardinality(InHand(Hand)) >= 2
    /\ game.current_player_index = NONE
    /\ game.pot = 0

(* the action just accepted completed its betting round: the phase moved on *)
(* with two seats or more still in the hand                                 *)
RoundCompleted ==
    /\ Accepted
    /\ game.phase # before.phase
    /\ Cardinality(InHand(Hand)) >= 2

(* C25: current_bet is at least the bet of every seat.  An accepted action  *)
(* that does not complete its round never lowers current_bet: a bet moves   *)
(* it from 0 to the bettor's bet, a raise moves it strictly up, a fold, a   *)
(* check or a call leaves it as it was.  An action that completes the round *)
(* leaves current_bet at 0, every seat's bet at 0 and has_acted false, and  *)
(* min_raise at the big blind.                                              *)
CurrentBetInvariant ==
    /\ \A i \in DOMAIN players : game.current_bet >= players[i].bet
    /\ (Accepted /\ ~RoundCompleted) =>
         /\ game.current_bet >= before.current_bet
         /\ Lower(last_call.action) = "bet" =>
              /\ before.current_bet = 0
              /\ game.current_bet = players[last_call.seat].bet
         /\ Lower(last_call.action) = "raise" =>
              game.current_bet > before.current_bet
         /\ Lower(last_call.action) \in {"fold", "check", "call"} =>
              game.current_bet = before.current_bet
    /\ RoundCompleted =>
         /\ game.current_bet = 0
         /\ game.min_raise = game.big_blind
         /\ \A i \in DOMAIN players :
               players[i].bet = 0 /\ ~players[i].has_acted

(* a call completed a round that had a bet and a raise in it, and the hand  *)
(* goes on with the bets cleared                                            *)
BetsClearedForNextRound ==
    /\ RoundCompleted
    /\ Running
    /\ Lower(last_call.action) = "call"
    /\ before.current_bet > before.big_blind
    /\ before.min_raise > before.big_blind
    /\ game.current_bet = 0

(* the place of a phase in the order of a hand *)
PhaseOrder == <<"waiting", "preflop", "flop", "turn", "river", "showdown">>

PhaseRank(phase) == CHOOSE k \in 1..Len(PhaseOrder) : PhaseOrder[k] = phase

(* C26: no call moves the phase of the hand backward along preflop, flop,   *)
(* turn, river, showdown; the board holds no card in preflop, 3 in flop, 4  *)
(* in turn and 5 in river; a hand in showdown stays in showdown.            *)
PhaseMonotone ==
    /\ PhaseRank(game.phase) >= PhaseRank(before.phase)
    /\ before.phase = "showdown" => game.phase = "showdown"
    /\ game.phase \in {"waiting", "preflop"} => Len(game.community_cards) = 0
    /\ game.phase = "flop" => Len(game.community_cards) = 3
    /\ game.phase = "turn" => Len(game.community_cards) = 4
    /\ game.phase = "river" => Len(game.community_cards) = 5

(* an action accepted on the flop took the hand straight to the showdown,   *)
(* the rest of the board dealt                                              *)
FlopToShowdown ==
    /\ Accepted
    /\ before.phase = "flop"
    /\ Len(before.community_cards) = 3
    /\ game.phase = "showdown"
    /\ Len(game.community_cards) = 5

(* seat i has put at least one chip in the pot in this hand: a blind, a     *)
(* call, a bet or a raise of its own is logged with chips                   *)
HasCommitted(i) ==
    \E k \in 1..Len(game.actions) :
       /\ game.actions[k].player_id = players[i].id
       /\ game.actions[k].amount > 0

(* C27: for every seat all_in is true iff its stack is 0 and it has         *)
(* committed at least one chip in the hand, also once the pot has been      *)
(* awarded; no stack and no bet is negative.                                *)
AllInFlag ==
    \A i \in DOMAIN players :
       /\ players[i].all_in <=> (players[i].stack = 0 /\ HasCommitted(i))
       /\ players[i].stack >= 0
       /\ players[i].bet >= 0

(* C27, as the code has it: no stack and no bet is negative; while the hand *)
(* is not over all_in is true iff the seat's stack is 0 and it has          *)
(* committed at least one chip in the hand; the flag is not cleared when    *)
(* the hand ends, so once the pot is awarded a seat with stack 0 that       *)
(* committed chips is all_in, and an all_in seat committed chips and either *)
(* has stack 0 or is a winner holding its share of the pot.                 *)
AllInFlagUntilAward ==
    \A i \in DOMAIN players :
       /\ players[i].stack >= 0
       /\ players[i].bet >= 0
       /\ ~game.hand_over =>
            (players[i].all_in <=> (players[i].stack = 0 /\ HasCommitted(i)))
       /\ game.hand_over =>
            /\ (players[i].stack = 0 /\ HasCommitted(i)) => players[i].all_in
            /\ players[i].all_in =>
                 /\ HasCommitted(i)
                 /\ players[i].stack = 0 \/ players[i].id \in WinnerSeats

(* the pot was awarded to a seat that was all-in: it holds chips again and  *)
(* is still marked all_in                                                   *)
AllInWinner ==
    /\ Resolved
    /\ \E i \in DOMAIN players :
          /\ players[i].id \in WinnerSeats
          /\ players[i].all_in
          /\ before.players[i].stack = 0
          /\ players[i].stack > 0

(* heads-up, blinds 10 and 20, 15 chips at seat 0 and 1000 at seat 1 *)
ShortStackHeadsUp ==
    /\ DOMAIN players = {0, 1}
    /\ TotalChips(Hand) = 1015
    /\ game.small_blind = 10
    /\ game.big_blind = 20

(* the seats still in the hand that are not all-in *)
CanStillBet == {i \in InHand(Hand) : ~players[i].all_in}

(* C28: heads-up, seat 0 with 15 chips posting the small blind of 10 and    *)
(* seat 1 the big blind of 20, the call of seat 0 commits its last 5 chips, *)
(* makes it all-in and ends the action: the board is dealt out and the hand *)
(* is at the showdown.  In general no seat is asked to act once at most one *)
(* seat in the hand is not all-in and no such seat has a bet to match.      *)
ShortCallEndsAction ==
    /\ (Accepted /\ ShortStackHeadsUp /\ Seat0Called /\ Len(game.actions) = 3) =>
          /\ players[0].all_in
          /\ Last(game.actions).amount = 5
          /\ game.hand_over
          /\ game.phase = "showdown"
          /\ Len(game.community_cards) = 5
          /\ game.current_player_index = NONE
    /\ (Running /\ Cardinality(CanStillBet) <= 1
          /\ \A i \in CanStillBet : ToCall(Hand, i) = 0) =>
          game.current_player_index = NONE

(* the last accepted raise reached a total below current_bet + min_raise *)
SubMinimumRaise == AcceptedRaise /\ RaisedTo < MinTotal(before)

(* C29, as the code has it: an accepted raise commits more than to_call; a  *)
(* raise whose total is below min_total is one the clamp cut down to all    *)
(* the seat's chips; and every accepted raise that leaves the round open,   *)
(* below min_total or not, sets current_bet to its total and min_raise to   *)
(* the total less the previous current_bet, so that a raise below min_total *)
(* lowers min_raise for the seats still to act.                             *)
RaiseSetsMinRaise ==
    /\ AcceptedRaise =>
         RaisedTo - before.players[last_call.seat].bet
            > ToCall(before, last_call.seat)
    /\ SubMinimumRaise =>
         /\ RaisedTo = Reach(before, last_call.seat)
         /\ players[last_call.seat].all_in
    /\ (AcceptedRaise /\ SameRound) =>
         /\ game.current_bet = RaisedTo
         /\ game.min_raise = RaisedTo - before.current_bet
    /\ (SubMinimumRaise /\ SameRound) => game.min_raise < before.min_raise

(* a seat went all-in with a raise below min_total, seats being left to     *)
(* answer it, and min_raise came down                                       *)
SubMinimumRaiseLowered ==
    /\ SubMinimumRaise
    /\ SameRound
    /\ players[last_call.seat].all_in
    /\ game.min_raise < before.min_raise
    /\ game.min_raise = RaisedTo - before.current_bet

(* C29, as stated: an accepted raise commits more than to_call; a raise to  *)
(* a total below min_total leaves min_raise as it was for the seats still   *)
(* to act; a raise to min_total or more sets min_raise to the total less    *)
(* the previous current_bet.                                                *)
SubMinimumRaiseKeepsMinRaise ==
    /\ AcceptedRaise =>
         RaisedTo - before.players[last_call.seat].bet
            > ToCall(before, last_call.seat)
    /\ (SubMinimumRaise /\ SameRound) => game.min_raise = before.min_raise
    /\ (AcceptedRaise /\ ~SubMinimumRaise /\ SameRound) =>
         game.min_raise = RaisedTo - before.current_bet

-----------------------------------------------------------------------------
(* Further properties of the room (RoomSpec) *)

(* C30: state_version identifies what a viewer is shown.  Every step of a   *)
(* request runs with the mutex taken and leaves it free, so the steps are   *)
(* ordered by its acquisition; a step that leaves state_version as it was   *)
(* leaves the snapshot of every viewer as it was, so that, state_version    *)
(* never going down, two snapshots for one viewer with the same             *)
(* state_version are the same; and a snapshot returned, while another       *)
(* request awaits choose_action or not, is the snapshot of the room as it   *)
(* is at its state_version.                                                 *)
VersionIdentifiesContent ==
    /\ room.lock = Free
    /\ room.state_version >= before.state_version
    /\ room.state_version = before.state_version =>
         /\ DOMAIN players = DOMAIN before.players
         /\ \A viewer \in Viewers :
               state_for(Whole, viewer) = state_for(before, viewer)
    /\ last_call.state # NoState =>
         /\ last_call.state.state_version = room.state_version
         /\ \E viewer \in Viewers : last_call.state = state_for(Whole, viewer)

(* while a request awaits choose_action a seated human fetched the state:   *)
(* the snapshot carries the state_version the room had and is the one that  *)
(* viewer had before                                                        *)
SameVersionSameSnapshot ==
    /\ last_call.op = "fetch_state"
    /\ last_call.err = ""
    /\ Choosing # {}
    /\ last_call.player_id \in Humans(Whole)
    /\ last_call.secret = players[last_call.player_id].secret
    /\ game # NoGame
    /\ Len(game.actions) > 2
    /\ room.state_version = before.state_version
    /\ last_call.state = state_for(before, last_call.player_id)

-----------------------------------------------------------------------------
(* Termination of auto-play (FairRoomSpec) *)

(* a hand is running and an automated seat is to act *)
BotToAct ==
    /\ HandRunning(Whole)
    /\ game.current_player_index # NONE
    /\ players[game.current_player_index].is_ai

(* a hand is running that no human seat can act in any more *)
BotsPlayAlone ==
    /\ HandRunning(Whole)
    /\ \A i \in Humans(Whole) :
          players[i].folded \/ players[i].busted \/ players[i].all_in

(* the auto-play loop of a request has returned, and the request with it *)
LoopReturned ==
    /\ last_call.op \in {"start_hand", "submit_action"}
    /\ last_call.err = ""
    /\ tasks[last_call.client] = Idle

(* C31: choose_action always returning, every request that entered the     *)
(* auto-play loop leaves it; the loop returns only when there is no hand,   *)
(* the hand is over or the seat to act is not an automated one; and a hand  *)
(* that only automated seats can act in goes on to hand_over.               *)
AutoPlayTerminates ==
    /\ [](LoopReturned => ~BotToAct)
    /\ \A c \in Clients : (tasks[c].pc # "idle") ~> (tasks[c].pc = "idle")
    /\ BotsPlayAlone ~> (game # NoGame /\ game.hand_over)

(* what the automated seats did in the hand, the blinds apart *)
BotActions ==
    {k \in DOMAIN game.actions :
        /\ players[game.actions[k].player_id].is_ai
        /\ game.actions[k].action \notin {"small_blind", "big_blind"}}

(* the loop of a request has returned, the hand over: every human seat had  *)
(* folded and the automated seats played on between themselves              *)
LoopPlayedToTheEnd ==
    /\ LoopReturned
    /\ last_call.step = "sleep"
    /\ game # NoGame
    /\ game.hand_over
    /\ \A i \in Humans(Whole) : players[i].folded
    /\ Cardinality(BotActions) >= 2

-----------------------------------------------------------------------------
(* The order of the hand evaluator (EvalSpec).  The categories are those of *)
(* the table of hands, read off the cards themselves.                       *)

RankSet(cards) == {RankValue(cards[k]) : k \in 1..Len(cards)}

(* how many of the cards have each of the ranks held *)
Shape(cards) ==
    {Cardinality({k \in 1..Len(cards) : RankValue(cards[k]) = v}) :
        v \in RankSet(cards)}

SameSuit(cards) == \A k \in 1..Len(cards) : SuitOf(cards[k]) = SuitOf(cards[1])

IsWheel(cards) == RankSet(cards) = {14, 2, 3, 4, 5}

InSequence(cards) ==
    /\ Cardinality(RankSet(cards)) = 5
    /\ IsWheel(cards) \/ SetMax(RankSet(cards)) - SetMin(RankSet(cards)) = 4

Category(cards) ==
    IF SameSuit(cards) /\ InSequence(cards) THEN 8
    ELSE IF 4 \in Shape(cards) THEN 7
    ELSE IF Shape(cards) = {3, 2} THEN 6
    ELSE IF SameSuit(cards) THEN 5
    ELSE IF InSequence(cards) THEN 4
    ELSE IF 3 \in Shape(cards) THEN 3
    ELSE IF Cardinality(RankSet(cards)) = 3 THEN 2
    ELSE IF Cardinality(RankSet(cards)) = 4 THEN 1
    ELSE 0

(* list a is above list b in the lexicographic order *)
LexGreater(a, b) ==
    \E k \in 1..Min2(Len(a), Len(b)) :
       a[k] > b[k] /\ \A j \in 1..(k - 1) : a[j] = b[j]

(* C32: each 5-card hand is given the category the table gives it; a hand   *)
(* of a higher category compares strictly greater than one of a lower       *)
(* category; two hands of one category compare as their kicker lists do in  *)
(* the lexicographic order; the wheel A-2-3-4-5 is a straight (or a         *)
(* straight flush) of high card 5, strictly below the 6-high one.           *)
EvaluatorOrder ==
    last_call.op = "compare_strength" =>
       LET l == last_call.left_strength
           r == last_call.right_strength
       IN  /\ l.rank_value = Category(last_call.left)
           /\ r.rank_value = Category(last_call.right)
           /\ Category(last_call.left) > Category(last_call.right)
                => last_call.result > 0
           /\ Category(last_call.left) < Category(last_call.right)
                => last_call.result < 0
           /\ Category(last_call.left) = Category(last_call.right)
                => /\ Len(l.kickers) = Len(r.kickers)
                   /\ last_call.result > 0 <=> LexGreater(l.kickers, r.kickers)
                   /\ last_call.result < 0 <=> LexGreater(r.kickers, l.kickers)
           /\ IsWheel(last_call.left)
                => /\ l.rank_value \in {4, 8}
                   /\ l.kickers = <<5>>
           /\ (/\ IsWheel(last_call.left)
               /\ RankSet(last_call.right) = 2..6
               /\ l.rank_value = r.rank_value)
                => last_call.result < 0

(* the wheel, unsuited, has been compared with an unsuited 6-high straight  *)
(* and found below it                                                       *)
WheelBelowSixHigh ==
    /\ last_call.op = "compare_strength"
    /\ IsWheel(last_call.left)
    /\ RankSet(last_call.right) = 2..6
    /\ last_call.left_strength.rank_value = 4
    /\ last_call.right_strength.rank_value = 4
    /\ last_call.result < 0

=============================================================================
